---- MODULE Spec2Model ----
(***************************************************************************)
(* Model of the python-llm secret-detection engine: CustomLLM (model.py)   *)
(* and LLMAnalyzer's model-version / A-B-test manager (service.py).        *)
(*                                                                         *)
(* Representation.                                                         *)
(*  - A CustomLLM object is a record in the heap `models`; analyzer.model  *)
(*    and model_versions hold object ids, so two names for one object are  *)
(*    visible as equal ids.  TransformerBlock objects live in the heap     *)
(*    `layer_objs`; a model's `layers` is a list of layer ids, so a        *)
(*    shallow list copy shares the blocks.                                 *)
(*  - Weights are integers counted in units of 1e-4 (= learning_rate*0.1). *)
(*    The classifier head is kept entry by entry.  The frozen arrays       *)
(*    (embeddings, positional table, a block's attention / feed-forward    *)
(*    matrices) are each kept as one integer standing for the whole array: *)
(*    the code only ever copies, replaces or compares them as a whole.     *)
(*  - The transformer encoder (embedding lookup, attention, feed-forward,  *)
(*    mean pooling) is real-valued; it is represented by `Pooled`, a fixed *)
(*    deterministic function of exactly the parameters and inputs the code *)
(*    reads, with values in {-1,0,1}.  The classification head, argmax,    *)
(*    the training update and all control flow are modelled exactly.       *)
(*  - softmax uses base 2 in place of base e so that probabilities are     *)
(*    exact rationals <<numerator, denominator>>.                          *)
(*  - A raised exception is the return value [raised |-> <exception>].     *)
(*  - The service (service.py, cache.py, database.py): the Redis server is *)
(*    the record redis_cache with its keys, the database the two lists of  *)
(*    rows the handlers append to.  A SHA-256 digest is kept as the text   *)
(*    it was taken of.  The model file save_model writes is kept only      *)
(*    where files are loaded.                                              *)
(*  - A request to a protected endpoint is served in steps: get_api_key,   *)
(*    check_rate_limit, then the handler.                                  *)
(***************************************************************************)
EXTENDS Integers, Sequences, FiniteSets, TLC

VARIABLES
    models,              \* heap of CustomLLM objects: id -> record
    layer_objs,          \* heap of TransformerBlock objects: id -> record
    model,               \* analyzer.model (an id)
    model_versions,      \* analyzer.model_versions: name -> id
    active_version,      \* analyzer.active_version
    ab_testing_enabled,  \* analyzer.ab_testing_enabled
    ab_test_groups,      \* analyzer.ab_test_groups
    version_performance, \* analyzer.version_performance: name -> counters
    default_model,       \* history: id of the built-in default version's model
    ret,                 \* history: the last call, its arguments and its result
    config,              \* analyzer.config, the ModelConfig every model refers to
    pending,             \* train_step calls between their bias and weight updates
    rate_limits,         \* security_manager.rate_limits: ip -> minute -> count
    now,                 \* the current calendar minute (UTC)
    request,             \* the call whose arguments were drawn at the start
    calls,               \* history: ip -> check_rate_limit calls in this minute
    cache_hits,          \* analyzer.cache_hits
    cache_misses,        \* analyzer.cache_misses
    analysis_cache,      \* analyzer.analysis_cache, an attribute set on switch and reset
    redis_cache,         \* cache.redis_cache: is_connected and the server's keys
    api_keys,            \* security_manager.api_keys
    training_db,         \* db_manager: the rows of stored training samples
    analysis_db          \* db_manager: the rows of stored analysis requests

vars == <<models, layer_objs, model, model_versions, active_version,
          ab_testing_enabled, ab_test_groups, version_performance,
          default_model, ret, config, pending, rate_limits, now, request, calls,
          cache_hits, cache_misses, analysis_cache, redis_cache, api_keys,
          training_db, analysis_db>>

----------------------------------------------------------------------------
(* Bounds of the model *)

\* config.max_seq_len, scaled down
MaxSeqLen == 2
\* config.vocab_size, scaled down: character codes are 0..VocabSize
VocabSize == 2
\* config.hidden_dim, scaled down: rows of the classifier matrix
HiddenDim == 1
\* config.num_layers, scaled down
NumLayers == 1
\* CustomLLM objects ever allocated (construction, versions, resets)
MaxModels == 3
\* longest secret of the generated feature extraction inputs
MaxSecretLen == 2
\* calibrate_confidence calls on one model
MaxCalibration == 6
\* security_manager.max_requests_per_minute, scaled down from 60
max_requests_per_minute == 2
\* train_step calls that can be under way at the same time
MaxPending == 2
\* training is disabled once a bias entry has drifted this far from 0
MaxDrift == 2
\* record_prediction_result is disabled once a version has this many records
MaxPredictions == 11
\* epochs passed to train are 0..MaxEpochs
MaxEpochs == 1
\* samples buffered by add_training_sample
MaxBuffer == 1
\* runs of equal characters in a request string
MaxRuns == 2
\* /train is disabled once the buffer of the active model holds this many
\* samples
MaxTrainRequests == 11
\* calculate_enhanced_confidence is disabled once the two cache counters
\* add up to this
MaxLookups == 3

(* Program constants *)

\* the longest secret_value a request may carry (service.py line 68)
MaxSecretChars == 10000
\* the feature vector length the model is built for
NumFeatures == 19
\* /train trains once the buffer holds this many samples (service.py line 1000)
MinTrainSamples == 5
\* and then on this many of the latest samples (service.py line 1001)
TrainWindow == 10
\* config.num_classes
NumClasses == 4
\* learning_rate = 0.001, in units of 1e-4
learning_rate == 10
\* get_ab_test_results: a group needs more than this many predictions
MinABPredictions == 10

Classes == 0 .. (NumClasses - 1)
Rows == 1 .. HiddenDim

\* config.num_heads, scaled down with hidden_dim: one row per head
NumHeads == HiddenDim

\* ModelConfig(): the fields save_model writes and load_model reads
ModelConfig ==
    [vocab_size  |-> VocabSize,  hidden_dim  |-> HiddenDim,
     num_layers  |-> NumLayers,  num_heads   |-> NumHeads,
     max_seq_len |-> MaxSeqLen,  num_classes |-> NumClasses,
     dropout     |-> 1]

\* forward's label list: index -> confidence level
labels == [c \in Classes |->
             CASE c = 0 -> "high" [] c = 1 -> "medium" [] c = 2 -> "low"
               [] OTHER -> "false_positive"]

----------------------------------------------------------------------------
(* Small helpers *)

Min(a, b) == IF a < b THEN a ELSE b
Max(a, b) == IF a > b THEN a ELSE b

\* the sum of the first n entries of s, and of all of s
RECURSIVE SumTo(_, _)
SumTo(s, n) == IF n = 0 THEN 0 ELSE s[n] + SumTo(s, n - 1)

SumSeq(s) == SumTo(s, Len(s))

RECURSIVE Pow2(_)
Pow2(n) == IF n <= 0 THEN 1 ELSE 2 * Pow2(n - 1)

----------------------------------------------------------------------------
(* CustomLLM: tokenizer, forward pass, training (model.py) *)

\* A freshly constructed CustomLLM whose random initialisation is `seed`
\* and whose transformer blocks are the layer objects `layer_ids`.
CustomLLM(seed, layer_ids) ==
    [token_embedding   |-> seed,
     feature_embedding |-> seed + 1,
     pos_encoding      |-> 1,
     layers            |-> layer_ids,
     classifier        |-> [r \in Rows |-> [c \in Classes |-> (r + c + seed) % 2]],
     classifier_bias   |-> [c \in Classes |-> 0],
     is_trained        |-> FALSE,
     training_samples  |-> <<>>,
     confidence_calibration |-> <<>>,
     calibration_samples    |-> <<>>]

\* CustomAttention.__init__: the assertion fails unless num_heads divides
\* embed_dim; the four projection matrices are drawn at random.
CustomAttention(seed, embed_dim, num_heads) ==
    IF embed_dim % num_heads # 0
    THEN [raised |-> "AssertionError"]
    ELSE [w_q |-> seed, w_k |-> seed + 1, w_v |-> seed, w_o |-> seed + 1,
          embed_dim |-> embed_dim, num_heads |-> num_heads,
          head_dim  |-> embed_dim \div num_heads]

\* FeedForwardNetwork.__init__
FeedForwardNetwork(seed, hidden_dim) ==
    [w1 |-> seed, b1 |-> 0, w2 |-> 1, b2 |-> 0,
     ln_weight |-> 1, ln_bias |-> 0,
     hidden_dim |-> hidden_dim, ff_dim |-> hidden_dim * 4]

\* A freshly constructed TransformerBlock(config)
TransformerBlock(seed, cfg) ==
    IF cfg.hidden_dim % cfg.num_heads # 0
    THEN [raised |-> "AssertionError"]
    ELSE [attention |-> CustomAttention(seed, cfg.hidden_dim, cfg.num_heads),
          ffn       |-> FeedForwardNetwork(seed + 1, cfg.hidden_dim)]

\* what a block's forward pass reads of the block: every weight array of its
\* attention and feed-forward parts and the head split of the attention
block_weights(b) ==
    b.attention.w_q + b.attention.w_k + b.attention.w_v + b.attention.w_o
    + b.attention.num_heads + b.attention.head_dim
    + b.ffn.w1 + b.ffn.b1 + b.ffn.w2 + b.ffn.b2 + b.ffn.ln_weight + b.ffn.ln_bias

\* the tokenizer as it would be without the cut at max_seq_len
tokenize_secret_uncut(secret_value) ==
    [i \in 1 .. Len(secret_value) |->
        IF secret_value[i] < VocabSize THEN secret_value[i] ELSE 0]

tokenize_secret(secret_value) ==
    [i \in 1 .. Min(Len(secret_value), MaxSeqLen) |->
        IF secret_value[i] < VocabSize THEN secret_value[i] ELSE 0]

\* The pooled encoder output x of forward (lines 193-214): a function of the
\* embeddings, the positional table, the blocks' weights, the tokens and the
\* feature vector.
Pooled(m, L, tokens, features) ==
    LET tok  == SumSeq([i \in 1 .. Len(tokens) |-> tokens[i] + 1]) * m.token_embedding
        feat == Len(tokens) * SumSeq(features) * m.feature_embedding
        pos  == Len(tokens) * m.pos_encoding
        lay  == SumSeq([i \in 1 .. Len(m.layers) |-> block_weights(L[m.layers[i]])])
    IN  CHOOSE x \in {[r \in Rows |-> ((h + r) % 3) - 1] :
                         h \in {tok + feat + pos + lay}} : TRUE

\* _softmax as it would be if it divided by the largest term, not by the sum
softmax_by_max(x) ==
    LET x_min == CHOOSE v \in {x[c] : c \in Classes} : \A c \in Classes : v <= x[c]
        exp_x == [c \in Classes |-> Pow2(x[c] - x_min)]
        top   == CHOOSE v \in {exp_x[c] : c \in Classes} : \A c \in Classes : exp_x[c] <= v
    IN  [c \in Classes |-> <<exp_x[c], top>>]

\* _softmax: probabilities as rationals <<numerator, denominator>>
softmax(x) ==
    LET x_min == CHOOSE v \in {x[c] : c \in Classes} : \A c \in Classes : v <= x[c]
        exp_x == [c \in Classes |-> Pow2(x[c] - x_min)]
        total == SumSeq([i \in 1 .. NumClasses |-> exp_x[i - 1]])
    IN  [c \in Classes |-> <<exp_x[c], total>>]

\* np.argmax over probabilities with a common denominator: the first maximum
argmax(probs) ==
    CHOOSE c \in Classes :
        /\ \A d \in Classes : probs[d][1] <= probs[c][1]
        /\ \A d \in Classes : d < c => probs[d][1] < probs[c][1]

\* forward after the empty-sequence check (lines 193-232); the matrix product
\* with feature_embedding raises unless there are NumFeatures features.
forward_tokens(m, L, tokens, features) ==
    IF Len(features) # NumFeatures
    THEN [raised |-> "ValueError"]
    ELSE CHOOSE result \in
           {[prediction    |-> labels[argmax(probs)],
             confidence    |-> probs[argmax(probs)],
             probabilities |-> probs] :
              probs \in {softmax([c \in Classes |->
                            SumSeq([r \in Rows |-> x[r] * m.classifier[r][c]])
                            + m.classifier_bias[c]]) :
                         x \in {Pooled(m, L, tokens, features)}}} : TRUE

\* forward as it would be without the empty-sequence fallback
forward_no_fallback(m, L, secret_value, features) ==
    forward_tokens(m, L, tokenize_secret(secret_value), features)

forward(m, L, secret_value, features) ==
    LET tokens  == tokenize_secret(secret_value)
        seq_len == Len(tokens)
    IN  IF seq_len = 0
        THEN [prediction |-> "low", confidence |-> <<0, 1>>]
        ELSE forward_tokens(m, L, tokens, features)

\* label_map.get with the default index 0 in place of 2
label_index_high(target_label) ==
    CASE target_label = "high" -> 0
      [] target_label = "medium" -> 1
      [] target_label = "low" -> 2
      [] target_label = "false_positive" -> 3
      [] OTHER -> 0

\* train_step's label_map.get(target_label, 2)
label_index(target_label) ==
    CASE target_label = "high" -> 0
      [] target_label = "medium" -> 1
      [] target_label = "low" -> 2
      [] target_label = "false_positive" -> 3
      [] OTHER -> 2

\* the update with the classifier matrix left alone
simple_gradient_update_bias_only(m, secret_value, features, target_idx, probs) ==
    LET tokens == tokenize_secret(secret_value)
    IN  IF tokens = <<>>
        THEN m
        ELSE LET pred_idx == argmax(probs)
             IN  IF pred_idx # target_idx
                 THEN LET update_factor == learning_rate \div 10
                          bias1 == [m.classifier_bias EXCEPT ![target_idx] = @ + update_factor]
                          bias2 == [bias1 EXCEPT ![pred_idx] = @ - update_factor]
                      IN  [m EXCEPT !.classifier_bias = bias2]
                 ELSE m

\* the update as it would be if it also moved the token embedding
simple_gradient_update_with_embedding(m, secret_value, features, target_idx, probs) ==
    LET tokens == tokenize_secret(secret_value)
    IN  IF tokens = <<>>
        THEN m
        ELSE LET pred_idx == argmax(probs)
             IN  IF pred_idx # target_idx
                 THEN LET update_factor == learning_rate \div 10
                          bias1 == [m.classifier_bias EXCEPT ![target_idx] = @ + update_factor]
                          bias2 == [bias1 EXCEPT ![pred_idx] = @ - update_factor]
                      IN  [m EXCEPT !.classifier_bias = bias2,
                                    !.classifier = [r \in Rows |-> [c \in Classes |->
                                        m.classifier[r][c]
                                          + (IF c = target_idx THEN update_factor
                                             ELSE IF c = pred_idx THEN -update_factor
                                             ELSE 0)]],
                                    !.token_embedding = @ + update_factor]
                 ELSE m

\* the update as it would be if it only raised the target class
simple_gradient_update_target_only(m, secret_value, features, target_idx, probs) ==
    LET tokens == tokenize_secret(secret_value)
    IN  IF tokens = <<>>
        THEN m
        ELSE LET pred_idx == argmax(probs)
             IN  IF pred_idx # target_idx
                 THEN LET update_factor == learning_rate \div 10
                      IN  [m EXCEPT !.classifier_bias[target_idx] = @ + update_factor,
                                    !.classifier = [r \in Rows |-> [c \in Classes |->
                                        m.classifier[r][c]
                                          + (IF c = target_idx THEN update_factor ELSE 0)]]]
                 ELSE m

simple_gradient_update(m, secret_value, features, target_idx, probs) ==
    LET tokens == tokenize_secret(secret_value)
    IN  IF tokens = <<>>
        THEN m
        ELSE LET pred_idx == argmax(probs)
             IN  IF pred_idx # target_idx
                 THEN LET update_factor == learning_rate \div 10
                          bias1 == [m.classifier_bias EXCEPT ![target_idx] = @ + update_factor]
                          bias2 == [bias1 EXCEPT ![pred_idx] = @ - update_factor]
                          grad0 == [r \in Rows |-> [c \in Classes |-> 0]]
                          grad1 == [r \in Rows |-> [grad0[r] EXCEPT ![target_idx] = update_factor]]
                          grad2 == [r \in Rows |-> [grad1[r] EXCEPT ![pred_idx] = -update_factor]]
                      IN  [m EXCEPT !.classifier_bias = bias2,
                                    !.classifier = [r \in Rows |-> [c \in Classes |->
                                                       m.classifier[r][c] + grad2[r][c]]]]
                 ELSE m

\* train_step: [model, raised, loss]; loss -log(p + 1e-8) is kept as the
\* probability p it is the negative logarithm of.
train_step(m, L, secret_value, features, target_label) ==
    CHOOSE out \in
      {IF "raised" \in DOMAIN result
       THEN [model |-> m, raised |-> result.raised]
       ELSE IF "probabilities" \notin DOMAIN result
       THEN [model |-> m, raised |-> "KeyError"]
       ELSE [model  |-> simple_gradient_update(m, secret_value, features,
                                               label_index(target_label),
                                               result.probabilities),
             raised |-> "none",
             loss   |-> [neg_log_of |->
                            result.probabilities[label_index(target_label)]]] :
         result \in {forward(m, L, secret_value, features)}} : TRUE

\* the iteration as it would be without the test of the feature vector length
train_sample_unchecked(st, L, sample) ==
    CHOOSE out \in
      {IF r.raised # "none"
       THEN [st EXCEPT !.raised = r.raised]
       ELSE [model      |-> r.model,
             epoch_loss |-> Append(st.epoch_loss, r.loss),
             raised     |-> "none"] :
         r \in {train_step(st.model, L, sample.secret_value,
                           sample.features, sample.label)}} : TRUE

\* One iteration of train's inner loop (lines 312-321); st is
\* [model, epoch_loss, raised], epoch_loss the list of summed losses.
train_sample(st, L, sample) ==
    IF Len(sample.features) # NumFeatures
    THEN st
    ELSE CHOOSE out \in
           {IF r.raised # "none"
            THEN [st EXCEPT !.raised = r.raised]
            ELSE [model      |-> r.model,
                  epoch_loss |-> Append(st.epoch_loss, r.loss),
                  raised     |-> "none"] :
              r \in {train_step(st.model, L, sample.secret_value,
                                sample.features, sample.label)}} : TRUE

\* The inner loop of train from sample i on; an exception ends it.
RECURSIVE train_epoch(_, _, _, _)
train_epoch(st, L, training_samples, i) ==
    IF i > Len(training_samples) \/ st.raised # "none"
    THEN st
    ELSE CHOOSE out \in
           {train_epoch(st2, L, training_samples, i + 1) :
              st2 \in {train_sample(st, L, training_samples[i])}} : TRUE

\* the epoch as it would be if the loss were averaged over the samples trained on
train_one_epoch_by_trained(st, L, training_samples) ==
    CHOOSE out \in
      {IF e.raised # "none"
       THEN [model |-> e.model, total_loss |-> st.total_loss, raised |-> e.raised]
       ELSE [model      |-> e.model,
             total_loss |-> Append(st.total_loss,
                                   [sum  |-> e.epoch_loss,
                                    over |-> Max(1, Len(e.epoch_loss))]),
             raised     |-> "none"] :
         e \in {train_epoch([model |-> st.model, epoch_loss |-> <<>>, raised |-> "none"],
                            L, training_samples, 1)}} : TRUE

\* One epoch of train (lines 310-324); st is [model, total_loss, raised],
\* total_loss the list of per-epoch averages [sum, over].
train_one_epoch(st, L, training_samples) ==
    CHOOSE out \in
      {IF e.raised # "none"
       THEN [model |-> e.model, total_loss |-> st.total_loss, raised |-> e.raised]
       ELSE [model      |-> e.model,
             total_loss |-> Append(st.total_loss,
                                   [sum  |-> e.epoch_loss,
                                    over |-> Max(1, Len(training_samples))]),
             raised     |-> "none"] :
         e \in {train_epoch([model |-> st.model, epoch_loss |-> <<>>, raised |-> "none"],
                            L, training_samples, 1)}} : TRUE

\* The epoch loop of train (line 309); an exception ends it.
RECURSIVE train_epochs(_, _, _, _)
train_epochs(st, L, training_samples, epochs_left) ==
    IF epochs_left = 0 \/ st.raised # "none"
    THEN st
    ELSE CHOOSE out \in
           {train_epochs(st2, L, training_samples, epochs_left - 1) :
              st2 \in {train_one_epoch(st, L, training_samples)}} : TRUE

\* train after the empty-list check (lines 306-335): [model, result]
train_samples(m, L, training_samples, epochs) ==
    CHOOSE out \in
      {IF st.raised # "none"
       THEN [model |-> st.model, result |-> [raised |-> st.raised]]
       ELSE IF epochs = 0
       THEN [model  |-> [st.model EXCEPT !.is_trained = TRUE],
             result |-> [raised |-> "ZeroDivisionError"]]
       ELSE [model  |-> [st.model EXCEPT !.is_trained = TRUE],
             result |-> [epochs_trained    |-> epochs,
                         average_loss      |-> [sum |-> st.total_loss, over |-> epochs],
                         samples_processed |-> Len(training_samples),
                         model_updated     |-> TRUE]] :
         st \in {train_epochs([model |-> m, total_loss |-> <<>>, raised |-> "none"],
                              L, training_samples, epochs)}} : TRUE

\* train as it would be without the empty-list check
train_unchecked(m, L, training_samples, epochs) ==
    train_samples(m, L, training_samples, epochs)

\* train: [model, result]
train(m, L, training_samples, epochs) ==
    IF training_samples = <<>>
    THEN [model |-> m, result |-> [error |-> "No training samples provided"]]
    ELSE train_samples(m, L, training_samples, epochs)

add_training_sample(m, secret_value, features, label) ==
    [m EXCEPT !.training_samples =
        Append(@, [secret_value |-> secret_value, features |-> features, label |-> label])]

\* the calibrated value: 0.7 * p + 0.3 * mean(history) clamped to [0, 1].
\* Confidences are in tenths; the result is the fraction [num, den] of tenths.
calibrated(p, history) ==
    LET n   == Len(history)
        num == 7 * p * n + 3 * SumSeq(history)
        den == 10 * n
    IN  IF num < 0 THEN [num |-> 0, den |-> 1]
        ELSE IF num > 10 * den THEN [num |-> 10, den |-> 1]
        ELSE [num |-> num, den |-> den]

\* calibrate_confidence as it would be with the mean used from five entries on
calibrate_confidence_from_five(m, predicted_confidence, true_label) ==
    LET old     == IF true_label \in DOMAIN m.confidence_calibration
                   THEN m.confidence_calibration[true_label] ELSE <<>>
        history == Append(old, predicted_confidence)
    IN  [model |-> [m EXCEPT
                      !.confidence_calibration = (true_label :> history) @@ @,
                      !.calibration_samples = Append(@,
                           [predicted_confidence |-> predicted_confidence,
                            true_label |-> true_label])],
         val   |-> IF Len(history) >= 5
                   THEN calibrated(predicted_confidence, history)
                   ELSE [num |-> predicted_confidence, den |-> 1]]

\* calibrate_confidence: [model, val]
calibrate_confidence(m, predicted_confidence, true_label) ==
    LET old     == IF true_label \in DOMAIN m.confidence_calibration
                   THEN m.confidence_calibration[true_label] ELSE <<>>
        history == Append(old, predicted_confidence)
    IN  [model |-> [m EXCEPT
                      !.confidence_calibration = (true_label :> history) @@ @,
                      !.calibration_samples = Append(@,
                           [predicted_confidence |-> predicted_confidence,
                            true_label |-> true_label])],
         val   |-> IF Len(history) > 5
                   THEN calibrated(predicted_confidence, history)
                   ELSE [num |-> predicted_confidence, den |-> 1]]

\* get_weights of the attention part, of the feed-forward part and of a block
attention_get_weights(a) ==
    [w_q |-> a.w_q, w_k |-> a.w_k, w_v |-> a.w_v, w_o |-> a.w_o,
     embed_dim |-> a.embed_dim, num_heads |-> a.num_heads]

ffn_get_weights(f) ==
    [w1 |-> f.w1, b1 |-> f.b1, w2 |-> f.w2, b2 |-> f.b2,
     ln_weight |-> f.ln_weight, ln_bias |-> f.ln_bias,
     hidden_dim |-> f.hidden_dim, ff_dim |-> f.ff_dim]

block_get_weights(b) ==
    [attention |-> attention_get_weights(b.attention),
     ffn       |-> ffn_get_weights(b.ffn)]

\* save_model: the document written for model m, whose configuration is cfg.
\* A file is [exists, parseable, data]; json.dump and json.load keep the
\* structure and the numbers of the document.
save_model(m, L, cfg) ==
    [exists    |-> TRUE,
     parseable |-> TRUE,
     data      |->
        [config     |-> [vocab_size  |-> cfg.vocab_size,  hidden_dim  |-> cfg.hidden_dim,
                         num_layers  |-> cfg.num_layers,  num_heads   |-> cfg.num_heads,
                         max_seq_len |-> cfg.max_seq_len, num_classes |-> cfg.num_classes,
                         dropout     |-> cfg.dropout],
         weights    |-> [token_embedding   |-> m.token_embedding,
                         feature_embedding |-> m.feature_embedding,
                         pos_encoding      |-> m.pos_encoding,
                         classifier        |-> m.classifier,
                         classifier_bias   |-> m.classifier_bias],
         layers     |-> [i \in 1 .. Len(m.layers) |-> block_get_weights(L[m.layers[i]])],
         is_trained |-> m.is_trained]]

\* The attributes keys[i], keys[i+1], ... of object o assigned in this order
\* from the dictionary w; a missing key raises KeyError and ends the
\* assignments, those already made stay: [obj, raised]
RECURSIVE assign_keys(_, _, _, _)
assign_keys(o, w, keys, i) ==
    IF i > Len(keys)
    THEN [obj |-> o, raised |-> FALSE]
    ELSE IF keys[i] \notin DOMAIN w
    THEN [obj |-> o, raised |-> TRUE]
    ELSE assign_keys([o EXCEPT ![keys[i]] = w[keys[i]]], w, keys, i + 1)

\* CustomAttention.set_weights: [obj, raised]
attention_set_weights(a, weights) ==
    CHOOSE out \in
      {IF r.raised THEN r
       ELSE IF r.obj.num_heads = 0
       THEN [obj |-> r.obj, raised |-> TRUE]
       ELSE [obj    |-> [r.obj EXCEPT !.head_dim = r.obj.embed_dim \div r.obj.num_heads],
             raised |-> FALSE] :
         r \in {assign_keys(a, weights,
                            <<"w_q", "w_k", "w_v", "w_o", "embed_dim", "num_heads">>, 1)}} : TRUE

\* set_weights of the feed-forward part as it would be if it left w1 alone
ffn_set_weights_without_w1(f, weights) ==
    assign_keys(f, weights,
                <<"b1", "w2", "b2", "ln_weight", "ln_bias", "hidden_dim", "ff_dim">>, 1)

\* FeedForwardNetwork.set_weights: [obj, raised]
ffn_set_weights(f, weights) ==
    assign_keys(f, weights,
                <<"w1", "b1", "w2", "b2", "ln_weight", "ln_bias", "hidden_dim", "ff_dim">>, 1)

\* TransformerBlock.set_weights: [obj, raised]
block_set_weights(b, weights) ==
    IF "attention" \notin DOMAIN weights
    THEN [obj |-> b, raised |-> TRUE]
    ELSE CHOOSE out \in
           {IF a.raised \/ "ffn" \notin DOMAIN weights
            THEN [obj |-> [b EXCEPT !.attention = a.obj], raised |-> TRUE]
            ELSE CHOOSE out2 \in
                   {[obj    |-> [b EXCEPT !.attention = a.obj, !.ffn = f.obj],
                     raised |-> f.raised] :
                      f \in {ffn_set_weights(b.ffn, weights.ffn)}} : TRUE :
              a \in {attention_set_weights(b.attention, weights.attention)}} : TRUE

\* load_model's loop over model_data['layers'] from entry i on (lines
\* 462-464): the blocks of the model are updated in place: [layer_objs, raised]
RECURSIVE load_layers(_, _, _, _)
load_layers(L, layer_ids, layer_data, i) ==
    IF i > Len(layer_data)
    THEN [layer_objs |-> L, raised |-> FALSE]
    ELSE IF i > Len(layer_ids)
    THEN load_layers(L, layer_ids, layer_data, i + 1)
    ELSE CHOOSE out \in
           {IF r.raised
            THEN [layer_objs |-> [L EXCEPT ![layer_ids[i]] = r.obj], raised |-> TRUE]
            ELSE load_layers([L EXCEPT ![layer_ids[i]] = r.obj], layer_ids, layer_data, i + 1) :
              r \in {block_set_weights(L[layer_ids[i]], layer_data[i])}} : TRUE

\* load_model after the file has been parsed (lines 444-466), in the order of
\* the code: the configuration, the arrays, the layers, is_trained.  raised
\* tells that an exception ended the load and was caught.
load_document(m, L, cfg, model_data) ==
    CHOOSE out \in
      {IF c.raised \/ "weights" \notin DOMAIN model_data
       THEN [model |-> m, layer_objs |-> L, config |-> c.obj, raised |-> TRUE]
       ELSE CHOOSE out2 \in
         {IF w.raised \/ "layers" \notin DOMAIN model_data
          THEN [model |-> w.obj, layer_objs |-> L, config |-> c.obj, raised |-> TRUE]
          ELSE CHOOSE out3 \in
            {IF l.raised
             THEN [model |-> w.obj, layer_objs |-> l.layer_objs, config |-> c.obj,
                   raised |-> TRUE]
             ELSE [model      |-> [w.obj EXCEPT !.is_trained =
                                     IF "is_trained" \in DOMAIN model_data
                                     THEN model_data.is_trained ELSE FALSE],
                   layer_objs |-> l.layer_objs,
                   config     |-> c.obj,
                   raised     |-> FALSE] :
               l \in {load_layers(L, m.layers, model_data.layers, 1)}} : TRUE :
            w \in {assign_keys(m, model_data.weights,
                               <<"token_embedding", "feature_embedding", "pos_encoding",
                                 "classifier", "classifier_bias">>, 1)}} : TRUE :
         c \in {IF "config" \in DOMAIN model_data
                THEN assign_keys(cfg, model_data.config,
                                 <<"vocab_size", "hidden_dim", "num_layers", "num_heads",
                                   "max_seq_len", "num_classes">>, 1)
                ELSE [obj |-> cfg, raised |-> TRUE]}} : TRUE

\* load_model: [model, layer_objs, config, raised].  A missing file returns at
\* once; a file json.load cannot parse raises before anything is assigned.
load_model(m, L, cfg, file) ==
    IF ~file.exists
    THEN [model |-> m, layer_objs |-> L, config |-> cfg, raised |-> FALSE]
    ELSE IF ~file.parseable
    THEN [model |-> m, layer_objs |-> L, config |-> cfg, raised |-> TRUE]
    ELSE load_document(m, L, cfg, file.data)

----------------------------------------------------------------------------
(* Inputs *)

\* random initialisations a constructor may draw
Seeds == {0, 1}

\* version names requests use
Names == {"default", "v1", "v2"}

\* secrets: empty, one character, and one longer than max_seq_len whose first
\* character code is outside the vocabulary
Secrets == {<<>>, <<1>>, <<VocabSize, 1>> \o [i \in 1 .. MaxSeqLen |-> 1]}

FeatureVector(n, k) == [i \in 1 .. n |-> IF i = 1 THEN k ELSE 0]

\* feature vectors: two of the right length, one too short
Features == {FeatureVector(NumFeatures, 0), FeatureVector(NumFeatures, 1),
             FeatureVector(NumFeatures - 1, 0)}

\* labels: the four confidence levels and one that is none of them
Labels == {"high", "medium", "low", "false_positive", "critical"}

\* snapshot documents on disk, saved by other model instances
Documents ==
    {save_model([CustomLLM(k, [i \in 1 .. NumLayers |-> i]) EXCEPT !.is_trained = TRUE],
                [i \in 1 .. NumLayers |-> TransformerBlock(k, ModelConfig)],
                ModelConfig) : k \in {2}}

----------------------------------------------------------------------------
(* LLMAnalyzer: construction (service.py) *)

heap_vars == <<models, layer_objs>>
version_vars == <<model, model_versions, active_version, default_model>>
ab_vars == <<ab_testing_enabled, ab_test_groups>>
env_vars == <<config, pending, rate_limits, now, request, calls>>
service_vars == <<redis_cache, api_keys, training_db, analysis_db>>
cache_vars == <<analysis_cache, cache_hits, cache_misses>>

\* dictionary d without key k
Without(d, k) == [x \in DOMAIN d \ {k} |-> d[x]]

\* a file that does not exist, and one json.load cannot parse
MissingFile    == [exists |-> FALSE, parseable |-> FALSE, data |-> [nothing |-> TRUE]]
UnparseableFile == [exists |-> TRUE, parseable |-> FALSE, data |-> [nothing |-> TRUE]]

\* parseable files that lack a key load_model reads: 'layers', 'classifier'
\* of 'weights', 'w_o' of the first layer's attention, 'weights' (after a
\* configuration with another number of heads), 'is_trained'
CorruptFiles ==
    {[d EXCEPT !.data = Without(d.data, "layers")] : d \in Documents}
    \cup {[d EXCEPT !.data.weights = Without(d.data.weights, "classifier")] : d \in Documents}
    \cup {[d EXCEPT !.data.layers[1].attention = Without(d.data.layers[1].attention, "w_o")] :
             d \in Documents}
    \cup {[d EXCEPT !.data = Without([d.data EXCEPT !.config.num_heads = NumHeads + 1],
                                     "weights")] : d \in Documents}
    \cup {[d EXCEPT !.data = Without(d.data, "is_trained")] : d \in Documents}

\* complete files whose first layer was saved with a number of heads that
\* does not divide its embedding dimension
OddHeadFiles ==
    {[d EXCEPT !.data.layers[1].attention.num_heads = HiddenDim + 1] : d \in Documents}

Files == Documents \cup {MissingFile, UnparseableFile} \cup CorruptFiles \cup OddHeadFiles

\* client addresses, and the calendar minutes the clock passes through
ClientIPs == {"10.0.0.1", "10.0.0.2"}
Minutes   == {0, 1, 2}

\* ids of the NumLayers blocks a constructor allocates at the end of the heap
NewLayerIds == [i \in 1 .. NumLayers |-> Len(layer_objs) + i]

\* the API_KEY environment variable, split at its commas
API_KEY == <<"test-key-123", "">>

\* SecurityManager.load_api_keys (lines 634-639): the non-empty entries
load_api_keys(api_key_env) ==
    {api_key_env[i] : i \in {j \in 1 .. Len(api_key_env) : api_key_env[j] # ""}}

\* RedisCacheManager after _connect (cache.py lines 18-37), by whether the
\* server answered the ping
RedisCacheManager(is_connected) == [is_connected |-> is_connected, data |-> <<>>]

\* LLMAnalyzer.__init__ with no saved model on disk, SecurityManager.__init__
\* and the startup event's load_api_keys; the Redis connection is set apart
Startup ==
    \E seed \in Seeds :
        /\ layer_objs = [i \in 1 .. NumLayers |-> TransformerBlock(seed, ModelConfig)]
        /\ models = <<CustomLLM(seed, [i \in 1 .. NumLayers |-> i])>>
        /\ model = 1
        /\ model_versions = <<>>
        /\ active_version = "default"
        /\ ab_testing_enabled = FALSE
        /\ ab_test_groups = [A |-> "default", B |-> "default"]
        /\ version_performance = <<>>
        /\ default_model = 1
        /\ ret = [op |-> "init"]
        /\ config = ModelConfig
        /\ pending = <<>>
        /\ rate_limits = <<>>
        /\ now = 0
        /\ calls = [ip \in ClientIPs |-> 0]
        /\ cache_hits = 0
        /\ cache_misses = 0
        /\ analysis_cache = [exists |-> FALSE, data |-> <<>>]
        /\ api_keys = load_api_keys(API_KEY)
        /\ training_db = <<>>
        /\ analysis_db = <<>>

\* the service with no Redis server within reach
Init ==
    Startup /\ request = [op |-> "none"] /\ redis_cache = RedisCacheManager(FALSE)

----------------------------------------------------------------------------
(* LLMAnalyzer: model versions and A/B testing (service.py) *)

\* the snapshot create_model_version builds from the current model
versioned_model(m) ==
    [CustomLLM(0, <<>>) EXCEPT !.token_embedding   = m.token_embedding,
                               !.feature_embedding = m.feature_embedding,
                               !.pos_encoding      = m.pos_encoding,
                               !.classifier        = m.classifier,
                               !.classifier_bias   = m.classifier_bias,
                               !.layers            = m.layers]

new_performance ==
    [total_predictions |-> 0, correct_predictions |-> 0,
     accuracy |-> <<0, 1>>, created_at |-> "now"]

\* create_model_version after the existence check (lines 390-408)
store_model_version(version_name) ==
    /\ Len(models) < MaxModels
    /\ IF config.hidden_dim % config.num_heads # 0
       THEN \* CustomLLM(self.config) fails its assertion, caught at line 409
            /\ ret' = [op |-> "create_model_version", version_name |-> version_name,
                       val |-> FALSE]
            /\ UNCHANGED <<models, model_versions, version_performance>>
       ELSE /\ models' = Append(models, versioned_model(models[model]))
            /\ model_versions' = (version_name :> (Len(models) + 1)) @@ model_versions
            /\ version_performance' =
                  (version_name :> new_performance) @@ version_performance
            /\ ret' = [op |-> "create_model_version", version_name |-> version_name,
                       val |-> TRUE]
    /\ UNCHANGED <<layer_objs, model, active_version, default_model, ab_vars>>
    /\ UNCHANGED <<env_vars, service_vars, cache_vars>>

\* create_model_version as it would be without the existence check
create_model_version_overwrite(version_name) ==
    store_model_version(version_name)

create_model_version(version_name) ==
    IF version_name \in DOMAIN model_versions
    THEN /\ ret' = [op |-> "create_model_version", version_name |-> version_name,
                    val |-> FALSE]
         /\ UNCHANGED <<heap_vars, version_vars, ab_vars, version_performance>>
         /\ UNCHANGED <<env_vars, service_vars, cache_vars>>
    ELSE store_model_version(version_name)

\* switch_model_version as it would be if it left the cache counters alone
switch_effect_keeping_counters(version_name) ==
    IF version_name \notin DOMAIN model_versions /\ version_name # "default"
    THEN /\ UNCHANGED <<model, active_version, cache_vars>>
    ELSE /\ IF version_name = "default"
            THEN /\ active_version' = "default"
                 /\ UNCHANGED model
            ELSE /\ active_version' = version_name
                 /\ model' = model_versions[version_name]
         /\ analysis_cache' = [exists |-> TRUE, data |-> <<>>]
         /\ UNCHANGED <<cache_hits, cache_misses>>

\* the state change of switch_model_version, and its return value
switch_effect(version_name) ==
    IF version_name \notin DOMAIN model_versions /\ version_name # "default"
    THEN /\ UNCHANGED <<model, active_version, cache_vars>>
    ELSE /\ IF version_name = "default"
            THEN /\ active_version' = "default"
                 /\ UNCHANGED model
            ELSE /\ active_version' = version_name
                 /\ model' = model_versions[version_name]
         /\ analysis_cache' = [exists |-> TRUE, data |-> <<>>]
         /\ cache_hits' = 0
         /\ cache_misses' = 0

switch_value(version_name) ==
    ~(version_name \notin DOMAIN model_versions /\ version_name # "default")

switch_model_version(version_name) ==
    /\ switch_effect(version_name)
    /\ ret' = [op |-> "switch_model_version", version_name |-> version_name,
               val |-> switch_value(version_name)]
    /\ UNCHANGED <<heap_vars, model_versions, default_model, ab_vars, version_performance>>
    /\ UNCHANGED <<env_vars, service_vars>>

enable_ab_testing(version_a, version_b) ==
    /\ IF \/ (version_a \notin DOMAIN model_versions /\ version_a # "default")
          \/ (version_b \notin DOMAIN model_versions /\ version_b # "default")
       THEN /\ UNCHANGED ab_vars
            /\ ret' = [op |-> "enable_ab_testing", val |-> FALSE]
       ELSE /\ ab_testing_enabled' = TRUE
            /\ ab_test_groups' = [A |-> version_a, B |-> version_b]
            /\ ret' = [op |-> "enable_ab_testing", val |-> TRUE]
    /\ UNCHANGED <<heap_vars, version_vars, version_performance>>
    /\ UNCHANGED <<env_vars, service_vars, cache_vars>>

disable_ab_testing ==
    /\ ab_testing_enabled' = FALSE
    /\ switch_effect("default")
    /\ ret' = [op |-> "disable_ab_testing"]
    /\ UNCHANGED <<heap_vars, model_versions, default_model, ab_test_groups,
                   version_performance>>
    /\ UNCHANGED <<env_vars, service_vars>>

\* a / b > c / d for accuracies <<a, b>>, <<c, d>> with positive denominators
Greater(x, y) == x[1] * y[2] > y[1] * x[2]

\* the performance get_ab_test_results reports for a version
group_performance(version) ==
    IF version \in DOMAIN version_performance
    THEN version_performance[version]
    ELSE [total_predictions |-> 0, accuracy |-> <<0, 1>>]

\* the winner with "at least" in place of "more than"
ab_winner_at_least ==
    LET perf_a == group_performance(ab_test_groups["A"])
        perf_b == group_performance(ab_test_groups["B"])
    IN  IF /\ perf_a.total_predictions >= MinABPredictions
           /\ perf_b.total_predictions >= MinABPredictions
        THEN IF Greater(perf_a.accuracy, perf_b.accuracy) THEN "A"
             ELSE IF Greater(perf_b.accuracy, perf_a.accuracy) THEN "B"
             ELSE "tie"
        ELSE "insufficient_data"

\* the winner get_ab_test_results determines
ab_winner ==
    LET perf_a == group_performance(ab_test_groups["A"])
        perf_b == group_performance(ab_test_groups["B"])
    IN  IF /\ perf_a.total_predictions > MinABPredictions
           /\ perf_b.total_predictions > MinABPredictions
        THEN IF Greater(perf_a.accuracy, perf_b.accuracy) THEN "A"
             ELSE IF Greater(perf_b.accuracy, perf_a.accuracy) THEN "B"
             ELSE "tie"
        ELSE "insufficient_data"

ab_test_results ==
    IF ~ab_testing_enabled
    THEN [error |-> "A/B testing not enabled"]
    ELSE [A |-> [version |-> ab_test_groups["A"],
                 performance |-> group_performance(ab_test_groups["A"])],
          B |-> [version |-> ab_test_groups["B"],
                 performance |-> group_performance(ab_test_groups["B"])],
          winner |-> ab_winner,
          recommendation |-> IF ab_winner \in {"A", "B"}
                             THEN ab_test_groups[ab_winner] ELSE "None"]

get_ab_test_results ==
    /\ ret' = [op |-> "get_ab_test_results", val |-> ab_test_results]
    /\ UNCHANGED <<heap_vars, version_vars, ab_vars, version_performance>>
    /\ UNCHANGED <<env_vars, service_vars, cache_vars>>

\* the counters record_prediction_result leaves for a version
\* the counters as they would be if every prediction counted as correct
recorded_as_correct(perf, correct) ==
    LET total == perf.total_predictions + 1
        right == perf.correct_predictions + 1
    IN  [perf EXCEPT !.total_predictions = total,
                     !.correct_predictions = right,
                     !.accuracy = <<right, total>>]

recorded(perf, correct) ==
    LET total == perf.total_predictions + 1
        right == IF correct THEN perf.correct_predictions + 1
                 ELSE perf.correct_predictions
    IN  [perf EXCEPT !.total_predictions = total,
                     !.correct_predictions = right,
                     !.accuracy = <<right, total>>]

record_prediction_result(version, correct) ==
    LET perf == IF version \in DOMAIN version_performance
                THEN version_performance[version]
                ELSE [total_predictions |-> 0, correct_predictions |-> 0,
                      accuracy |-> <<0, 1>>]
    IN  /\ perf.total_predictions < MaxPredictions
        /\ version_performance' =
              (version :> recorded(perf, correct)) @@ version_performance
        /\ ret' = [op |-> "record_prediction_result"]
        /\ UNCHANGED <<heap_vars, version_vars, ab_vars>>
        /\ UNCHANGED <<env_vars, service_vars, cache_vars>>

\* POST /reset
reset_model ==
    /\ Len(models) < MaxModels
    /\ IF config.hidden_dim % config.num_heads # 0
       THEN \* CustomLLM(analyzer.config) fails its assertion, caught at line 1039
            /\ ret' = [op |-> "reset", val |-> [status |-> "error"]]
            /\ UNCHANGED <<heap_vars, model, default_model, cache_vars>>
       ELSE /\ \E seed \in Seeds :
                  /\ layer_objs' = layer_objs \o
                        [i \in 1 .. NumLayers |-> TransformerBlock(seed, config)]
                  /\ models' = Append(models, CustomLLM(seed, NewLayerIds))
            /\ model' = Len(models) + 1
            /\ default_model' = IF active_version = "default" THEN Len(models) + 1
                                ELSE default_model
            /\ analysis_cache' = [exists |-> TRUE, data |-> <<>>]
            /\ cache_hits' = 0
            /\ cache_misses' = 0
            /\ ret' = [op |-> "reset", val |-> [status |-> "reset"]]
    /\ UNCHANGED <<model_versions, active_version, ab_vars, version_performance>>
    /\ UNCHANGED <<env_vars, service_vars>>

----------------------------------------------------------------------------
(* Calls on the active model, analyzer.model *)

analyzer_vars == <<version_vars, ab_vars, version_performance>>

\* no classifier bias entry of the active model has drifted to the bound
DriftOK == \A c \in Classes :
              /\ models[model].classifier_bias[c] < MaxDrift
              /\ models[model].classifier_bias[c] > -MaxDrift

Forward(secret_value, features) ==
    /\ ret' = [op |-> "forward", secret_value |-> secret_value, features |-> features,
               val |-> forward(models[model], layer_objs, secret_value, features)]
    /\ UNCHANGED <<heap_vars, analyzer_vars, env_vars, service_vars, cache_vars>>

TrainStep(secret_value, features, target_label) ==
    LET r == train_step(models[model], layer_objs, secret_value, features, target_label)
    IN  /\ DriftOK
        /\ models' = [models EXCEPT ![model] = r.model]
        /\ ret' = [op |-> "train_step", secret_value |-> secret_value,
                   features |-> features, target_label |-> target_label,
                   val |-> IF r.raised # "none" THEN [raised |-> r.raised]
                           ELSE [loss |-> r.loss]]
        /\ UNCHANGED <<layer_objs, analyzer_vars, env_vars, service_vars, cache_vars>>

Train(training_samples, epochs) ==
    LET r == train(models[model], layer_objs, training_samples, epochs)
    IN  /\ DriftOK
        /\ models' = [models EXCEPT ![model] = r.model]
        /\ ret' = [op |-> "train", training_samples |-> training_samples,
                   epochs |-> epochs, val |-> r.result]
        /\ UNCHANGED <<layer_objs, analyzer_vars, env_vars, service_vars, cache_vars>>

AddTrainingSample(secret_value, features, label) ==
    /\ Len(models[model].training_samples) < MaxBuffer
    /\ models' = [models EXCEPT ![model] =
                     add_training_sample(@, secret_value, features, label)]
    /\ ret' = [op |-> "add_training_sample"]
    /\ UNCHANGED <<layer_objs, analyzer_vars, env_vars, service_vars, cache_vars>>

LoadModel(model_data) ==
    \E r \in {load_model(models[model], layer_objs, config, model_data)} :
        /\ models' = [models EXCEPT ![model] = r.model]
        /\ layer_objs' = r.layer_objs
        /\ config' = r.config
        /\ ret' = [op |-> "load_model", model_data |-> model_data]
        /\ UNCHANGED <<analyzer_vars, pending, rate_limits, now, request, calls,
                   service_vars, cache_vars>>

\* models[src].save_model(f) followed by load_model(f) on the active model
SaveLoad(src) ==
    \E file \in {save_model(models[src], layer_objs, config)} :
      \E r \in {load_model(models[model], layer_objs, config, file)} :
        /\ models' = [models EXCEPT ![model] = r.model]
        /\ layer_objs' = r.layer_objs
        /\ config' = r.config
        /\ ret' = [op |-> "save_load", src |-> src, target |-> model,
                   was |-> save_model(models[model], layer_objs, config).data]
        /\ UNCHANGED <<analyzer_vars, pending, rate_limits, now, request, calls,
                   service_vars, cache_vars>>

CalibrateConfidence(predicted_confidence, true_label) ==
    /\ Len(models[model].calibration_samples) < MaxCalibration
    /\ \E r \in {calibrate_confidence(models[model], predicted_confidence, true_label)} :
         /\ models' = [models EXCEPT ![model] = r.model]
         /\ ret' = [op |-> "calibrate_confidence",
                    predicted_confidence |-> predicted_confidence,
                    true_label |-> true_label, val |-> r.val]
    /\ UNCHANGED <<layer_objs, analyzer_vars, env_vars, service_vars, cache_vars>>

\* SecurityManager.check_rate_limit as it would be with > in place of >=
check_rate_limit_above(client_ip) ==
    LET client_limits == IF client_ip \in DOMAIN rate_limits
                         THEN rate_limits[client_ip] ELSE <<>>
        kept    == {t \in DOMAIN client_limits : ~(t < now - 1)}
        cleaned == [t \in kept \cup {now} |->
                       IF t \in kept THEN client_limits[t] ELSE 0]
    IN  /\ calls[client_ip] < max_requests_per_minute + 2
        /\ calls' = [calls EXCEPT ![client_ip] = @ + 1]
        /\ IF cleaned[now] > max_requests_per_minute
           THEN /\ rate_limits' = (client_ip :> cleaned) @@ rate_limits
                /\ ret' = [op |-> "check_rate_limit", client_ip |-> client_ip,
                           val |-> FALSE]
           ELSE /\ rate_limits' =
                      (client_ip :> [cleaned EXCEPT ![now] = @ + 1]) @@ rate_limits
                /\ ret' = [op |-> "check_rate_limit", client_ip |-> client_ip,
                           val |-> TRUE]
        /\ UNCHANGED <<heap_vars, analyzer_vars, config, pending, now, request,
                   service_vars, cache_vars>>

\* SecurityManager.check_rate_limit: the client's entries older than the
\* minute before this one are deleted, the entry of this minute is created
\* at 0, and the call is counted unless the entry has reached the maximum.
\* It is called from an async dependency, so calls do not interleave.
check_rate_limit(client_ip) ==
    LET client_limits == IF client_ip \in DOMAIN rate_limits
                         THEN rate_limits[client_ip] ELSE <<>>
        kept    == {t \in DOMAIN client_limits : ~(t < now - 1)}
        cleaned == [t \in kept \cup {now} |->
                       IF t \in kept THEN client_limits[t] ELSE 0]
    IN  /\ calls[client_ip] < max_requests_per_minute + 2
        /\ calls' = [calls EXCEPT ![client_ip] = @ + 1]
        /\ IF cleaned[now] >= max_requests_per_minute
           THEN /\ rate_limits' = (client_ip :> cleaned) @@ rate_limits
                /\ ret' = [op |-> "check_rate_limit", client_ip |-> client_ip,
                           val |-> FALSE]
           ELSE /\ rate_limits' =
                      (client_ip :> [cleaned EXCEPT ![now] = @ + 1]) @@ rate_limits
                /\ ret' = [op |-> "check_rate_limit", client_ip |-> client_ip,
                           val |-> TRUE]
        /\ UNCHANGED <<heap_vars, analyzer_vars, config, pending, now, request,
                   service_vars, cache_vars>>

\* the clock (datetime.utcnow) passes into the next calendar minute
Tick ==
    /\ now + 1 \in Minutes
    /\ now' = now + 1
    /\ calls' = [ip \in ClientIPs |-> 0]
    /\ ret' = [op |-> "tick"]
    /\ UNCHANGED <<heap_vars, analyzer_vars, config, pending, rate_limits, request,
                   service_vars, cache_vars>>

\* Requests are served by a pool of threads and train_step holds no lock, so
\* a thread can be suspended between two statements of
\* _simple_gradient_update.  pending lists the calls that have adjusted the
\* bias (lines 283-284) and not yet the classifier (line 290).

\* lines 283-284 and lines 287-290 of _simple_gradient_update
bias_update(m, target_idx, pred_idx) ==
    [m EXCEPT !.classifier_bias[target_idx] = @ + (learning_rate \div 10),
              !.classifier_bias[pred_idx]   = @ - (learning_rate \div 10)]

weight_update(m, target_idx, pred_idx) ==
    [m EXCEPT !.classifier =
        [r \in Rows |-> [c \in Classes |->
            m.classifier[r][c]
              + (IF c = pred_idx THEN -(learning_rate \div 10)
                 ELSE IF c = target_idx THEN learning_rate \div 10 ELSE 0)]]]

\* train_step up to and including the bias adjustment; a call that has no
\* update to make runs to its end
TrainStepBegin(secret_value, features, target_label) ==
    /\ DriftOK
    /\ Len(pending) < MaxPending
    /\ \E result \in {forward(models[model], layer_objs, secret_value, features)} :
         /\ "probabilities" \in DOMAIN result
         /\ \E pred_idx \in {argmax(result.probabilities)},
               target_idx \in {label_index(target_label)} :
              IF tokenize_secret(secret_value) # <<>> /\ pred_idx # target_idx
              THEN /\ models' = [models EXCEPT ![model] =
                                    bias_update(@, target_idx, pred_idx)]
                   /\ pending' = Append(pending, [model |-> model,
                                                  target_idx |-> target_idx,
                                                  pred_idx |-> pred_idx])
                   /\ ret' = [op |-> "train_step_begin"]
              ELSE /\ UNCHANGED <<models, pending>>
                   /\ ret' = [op |-> "train_step", secret_value |-> secret_value,
                              features |-> features, target_label |-> target_label,
                              val |-> [loss |-> [neg_log_of |->
                                          result.probabilities[target_idx]]]]
    /\ UNCHANGED <<layer_objs, analyzer_vars, config, rate_limits, now, request, calls,
                   service_vars, cache_vars>>

\* the i-th suspended train_step call resumes: line 290, then it returns
TrainStepEnd(i) ==
    /\ i \in 1 .. Len(pending)
    /\ models' = [models EXCEPT ![pending[i].model] =
                     weight_update(@, pending[i].target_idx, pending[i].pred_idx)]
    /\ pending' = [j \in 1 .. Len(pending) - 1 |->
                     IF j < i THEN pending[j] ELSE pending[j + 1]]
    /\ ret' = [op |-> "train_step_end"]
    /\ UNCHANGED <<layer_objs, analyzer_vars, config, rate_limits, now, request, calls,
                   service_vars, cache_vars>>

----------------------------------------------------------------------------
(* Feature extraction: LLMAnalyzer._extract_features and its helpers.  A
   string is the sequence of its characters, a character a string of length
   one; a fraction is the pair <<numerator, denominator>>. *)

Digits      == {"0", "1", "2", "3", "4", "5", "6", "7", "8", "9"}
LowerCase   == <<"a", "b", "c", "d", "e", "f", "g", "h", "i", "j", "k", "l", "m", "n", "o", "p", "q", "r", "s", "t", "u", "v", "w", "x", "y", "z">>
UpperCase   == <<"A", "B", "C", "D", "E", "F", "G", "H", "I", "J", "K", "L", "M", "N", "O", "P", "Q", "R", "S", "T", "U", "V", "W", "X", "Y", "Z">>
LowerChars  == {LowerCase[i] : i \in 1 .. Len(LowerCase)}
UpperChars  == {UpperCase[i] : i \in 1 .. Len(UpperCase)}
Letters     == LowerChars \cup UpperChars
Alnum       == Letters \cup Digits
\* special_chars of line 205; "backslash" and "backquote" stand for the
\* characters of these names
SpecialChars ==
    {"!", "#", "$", "%", "&", "(", ")", "*", "+", ",", "-", ".", "/", ":", ";",
     "<", "=", ">", "?", "@", "[", "backslash", "]", "^", "_", "backquote", "{", "|",
     "}", "~"}
\* string.hexdigits, and string.ascii_letters + string.digits + '+/='
HexDigits   == Digits \cup {"a", "b", "c", "d", "e", "f", "A", "B", "C", "D", "E", "F"}
Base64Chars == Alnum \cup {"+", "/", "="}

\* str.lower and str.upper
lower_char(c) ==
    IF c \in UpperChars
    THEN LowerCase[CHOOSE i \in 1 .. Len(UpperCase) : UpperCase[i] = c]
    ELSE c

upper_char(c) ==
    IF c \in LowerChars
    THEN UpperCase[CHOOSE i \in 1 .. Len(LowerCase) : LowerCase[i] = c]
    ELSE c

lower(s) == [i \in 1 .. Len(s) |-> lower_char(s[i])]
upper(s) == [i \in 1 .. Len(s) |-> upper_char(s[i])]

\* str.startswith, str.endswith, `sub in s`
startswith(s, prefix) ==
    /\ Len(prefix) <= Len(s)
    /\ \A i \in 1 .. Len(prefix) : s[i] = prefix[i]

endswith(s, suffix) ==
    /\ Len(suffix) <= Len(s)
    /\ \A i \in 1 .. Len(suffix) : s[Len(s) - Len(suffix) + i] = suffix[i]

contains(s, sub) ==
    \E k \in 0 .. Len(s) - Len(sub) : \A i \in 1 .. Len(sub) : s[k + i] = sub[i]

\* number of the keywords of the list words that occur in text
keyword_count(words, text) ==
    Cardinality({i \in 1 .. Len(words) : contains(text, words[i])})

\* the n characters of s from position from on exist and are all of class
all_in(s, from, n, class) ==
    /\ Len(s) >= from + n - 1
    /\ \A i \in from .. from + n - 1 : s[i] \in class

\* _calculate_entropy: 0.0 for the empty text, else the Shannon entropy, a
\* function of the text's length and of how often each character occurs;
\* kept as that length and the bag of the occurrence counts
calculate_entropy(text) ==
    IF text = <<>>
    THEN [length |-> 0, counts |-> <<>>]
    ELSE LET chars   == {text[i] : i \in 1 .. Len(text)}
             freq(c) == Cardinality({i \in 1 .. Len(text) : text[i] = c})
         IN  [length |-> Len(text),
              counts |-> [n \in {freq(c) : c \in chars} |->
                             Cardinality({c \in chars : freq(c) = n})]]

is_base64(text) == Len(text) % 4 = 0 /\ \A i \in 1 .. Len(text) : text[i] \in Base64Chars

is_hex(text) == Len(text) >= 32 /\ \A i \in 1 .. Len(text) : text[i] \in HexDigits

\* _analyze_context_risk, in hundredths
analyze_context_risk(context) ==
    LET keywords == <<<<"a", "u", "t", "h">>, <<"k", "e", "y">>, <<"s", "e", "c", "r", "e", "t">>, <<"t", "o", "k", "e", "n">>, <<"p", "a", "s", "s", "w", "o", "r", "d">>>>
    IN  Min(100, 20 * keyword_count(keywords, lower(context)))

\* _score_variable_name, in hundredths; name is [is_none, value]
score_variable_name(name) ==
    IF name.is_none \/ name.value = <<>> THEN 0
    ELSE IF upper(name.value) = name.value THEN 80
    ELSE IF \E word \in {<<"s", "e", "c", "r", "e", "t">>, <<"k", "e", "y">>, <<"t", "o", "k", "e", "n">>} : contains(lower(name.value), word)
    THEN 60
    ELSE 20

\* _detect_common_secret_patterns: re.match anchors each pattern at the
\* start of the secret
detect_common_secret_patterns(secret) ==
    IF \/ startswith(secret, <<"s", "k", "-">>) /\ all_in(secret, 4, 20, Alnum)
       \/ startswith(secret, <<"A", "K", "I", "A", "I">>) /\ all_in(secret, 6, 16, Alnum)
       \/ startswith(secret, <<"g", "h", "p", "_">>) /\ all_in(secret, 5, 36, Alnum)
       \/ /\ startswith(secret, <<"x", "o", "x">>)
          /\ all_in(secret, 4, 1, {"b", "a", "p", "r", "s"})
          /\ all_in(secret, 5, 1, {"-"})
          /\ all_in(secret, 6, 1, Alnum \cup {"-"})
       \/ all_in(secret, 1, 32, Digits \cup {"a", "b", "c", "d", "e", "f"})
       \/ all_in(secret, 1, 40, Digits \cup {"a", "b", "c", "d", "e", "f"})
       \/ all_in(secret, 1, 64, Digits \cup {"a", "b", "c", "d", "e", "f"})
    THEN 1
    ELSE 0

\* _analyze_secret_structure: a fraction with denominator 30 * len(secret)
analyze_secret_structure(secret) ==
    IF secret = <<>> THEN [num |-> 0, den |-> 1]
    ELSE LET n == Len(secret)
             alternating ==
                 Cardinality({i \in 1 .. n - 1 :
                    \/ secret[i] \in Letters /\ secret[i + 1] \in Digits
                    \/ secret[i] \in Digits /\ secret[i + 1] \in Letters})
             sep_count == Cardinality({sep \in {"-", "_", "."} :
                                         \E i \in 1 .. n : secret[i] = sep})
             alt_score == IF n > 10 THEN Min(30 * n, 100 * alternating) ELSE 0
             sep_score == Min(30 * n, 9 * n * sep_count)
             len_score == IF 20 <= n /\ n <= 100 THEN 9 * n
                          ELSE IF n > 100 THEN 3 * n ELSE 0
         IN  [num |-> Min(30 * n, alt_score + sep_score + len_score), den |-> 30 * n]

\* _check_entropy_distribution: 0.0 below eight characters, else a function
\* of the entropies of the windows of eight characters, kept as their list
check_entropy_distribution(secret) ==
    IF Len(secret) < 8 THEN <<>>
    ELSE [i \in 1 .. Len(secret) - 8 + 1 |->
             calculate_entropy([j \in 1 .. 8 |-> secret[i + j - 1]])]

\* _detect_api_key_patterns, in tenths
detect_api_key_patterns(secret) ==
    IF Len(secret) < 10 THEN 0
    ELSE LET prefixes == <<[prefix |-> <<"s", "k", "-">>, score |-> 10], [prefix |-> <<"p", "k", "-">>, score |-> 10],
                           [prefix |-> <<"A", "K", "I", "A", "I">>, score |-> 10], [prefix |-> <<"g", "h", "p", "_">>, score |-> 10],
                           [prefix |-> <<"x", "o", "x">>, score |-> 10], [prefix |-> <<"B", "e", "a", "r", "e", "r", " ">>, score |-> 8],
                           [prefix |-> <<"T", "o", "k", "e", "n", " ">>, score |-> 8], [prefix |-> <<"a", "p", "i", "k", "e", "y">>, score |-> 6],
                           [prefix |-> <<"s", "e", "c", "r", "e", "t">>, score |-> 6]>>
             scores == {0} \cup {prefixes[j].score : j \in
                          {i \in 1 .. Len(prefixes) :
                             startswith(lower(secret), lower(prefixes[i].prefix))}}
             prefix_score == CHOOSE v \in scores : \A w \in scores : w <= v
             suffix_score == IF endswith(secret, <<"=">>) THEN Max(prefix_score, 7)
                             ELSE prefix_score
             total == Len(secret)
             alpha_count == Cardinality({i \in 1 .. total : secret[i] \in Letters})
             digit_count == Cardinality({i \in 1 .. total : secret[i] \in Digits})
         IN  IF /\ 3 * total <= 10 * alpha_count /\ 10 * alpha_count <= 8 * total
                /\ total <= 10 * digit_count /\ 10 * digit_count <= 6 * total
             THEN Max(suffix_score, 4)
             ELSE suffix_score

\* _analyze_context_keywords, in hundredths
analyze_context_keywords(context) ==
    IF context = <<>> THEN 0
    ELSE LET context_lower == lower(context)
             high   == <<<<"p", "a", "s", "s", "w", "o", "r", "d">>, <<"s", "e", "c", "r", "e", "t">>, <<"k", "e", "y">>, <<"t", "o", "k", "e", "n">>, <<"a", "u", "t", "h">>, <<"c", "r", "e", "d", "e", "n", "t", "i", "a", "l">>>>
             medium == <<<<"c", "o", "n", "f", "i", "g">>, <<"e", "n", "v">>, <<"a", "p", "i">>, <<"a", "c", "c", "e", "s", "s">>, <<"p", "r", "i", "v", "a", "t", "e">>, <<"s", "e", "c", "u", "r", "e">>>>
             low    == <<<<"c", "o", "n", "s", "t">>, <<"l", "e", "t">>, <<"v", "a", "r">>, <<"e", "x", "p", "o", "r", "t">>, <<"p", "r", "o", "c", "e", "s", "s", ".", "e", "n", "v">>>>
             quotes == \E i \in 1 .. Len(context) : context[i] \in {"\"", "'", "backquote"}
             equals == \E i \in 1 .. Len(context) : context[i] = "="
         IN  Min(100, 30 * keyword_count(high, context_lower)
                        + 15 * keyword_count(medium, context_lower)
                        + 5 * keyword_count(low, context_lower)
                        + (IF quotes THEN 10 ELSE 0) + (IF equals THEN 10 ELSE 0))

\* a / b: a fraction, or ZeroDivisionError
divide(a, b) ==
    IF b = 0 THEN [raised |-> "ZeroDivisionError"] ELSE [num |-> a, den |-> b]

\* the unique character ratio as it would be without the test for an empty secret
unique_ratio_unguarded(secret_value) ==
    divide(Cardinality({secret_value[i] : i \in 1 .. Len(secret_value)}), Len(secret_value))

\* len(set(secret_value)) / len(secret_value) if secret_value else 0 (line 211)
unique_ratio(secret_value) ==
    IF secret_value # <<>>
    THEN divide(Cardinality({secret_value[i] : i \in 1 .. Len(secret_value)}),
                Len(secret_value))
    ELSE [num |-> 0, den |-> 1]

\* _extract_features: [raised, features], the features in the order they are
\* appended
extract_features(secret_value, context, variable_name) ==
    LET any(class) == IF \E i \in 1 .. Len(secret_value) : secret_value[i] \in class
                      THEN 1 ELSE 0
        keywords == <<<<"c", "o", "n", "s", "t">>, <<"l", "e", "t">>, <<"v", "a", "r">>, <<"p", "r", "o", "c", "e", "s", "s", ".", "e", "n", "v">>, <<"c", "o", "n", "f", "i", "g">>, <<"s", "e", "c", "r", "e", "t">>,
                      <<"k", "e", "y">>, <<"t", "o", "k", "e", "n">>, <<"a", "u", "t", "h">>>>
        ratio == unique_ratio(secret_value)
    IN  IF "raised" \in DOMAIN ratio
        THEN [raised |-> ratio.raised, features |-> <<>>]
        ELSE [raised |-> "none",
              features |->
                <<Len(secret_value),
                  calculate_entropy(secret_value),
                  any(SpecialChars),
                  any(Digits),
                  any(UpperChars),
                  any(LowerChars),
                  ratio,
                  IF \E prefix \in {<<"s", "k", "-">>, <<"p", "k", "_">>, <<"A", "K", "I", "A", "I">>, <<"g", "h", "p", "_">>, <<"x", "o", "x">>,
                                    <<"B", "e", "a", "r", "e", "r", " ">>, <<"T", "o", "k", "e", "n", " ">>} :
                        startswith(secret_value, prefix)
                  THEN 1 ELSE 0,
                  IF is_base64(secret_value) THEN 1 ELSE 0,
                  IF is_hex(secret_value) THEN 1 ELSE 0,
                  analyze_context_risk(context),
                  IF \E i \in 1 .. Len(context) : context[i] \in {"\"", "'", "backquote"}
                  THEN 1 ELSE 0,
                  keyword_count(keywords, lower(context)),
                  score_variable_name(variable_name),
                  detect_common_secret_patterns(secret_value),
                  analyze_secret_structure(secret_value),
                  check_entropy_distribution(secret_value),
                  detect_api_key_patterns(secret_value),
                  analyze_context_keywords(context)>>]

\* Inputs of feature extraction

\* every string over alphabet of length at most n
Strings(alphabet, n) == UNION {[1 .. k -> alphabet] : k \in 0 .. n}

\* the secret and the context of the service's first cache warming pattern
ExampleSecret  == <<"s", "k", "-", "1", "2", "3", "4", "5", "6", "7", "8", "9", "0", "a", "b", "c", "d", "e", "f">>
ExampleContext == <<"c", "o", "n", "s", "t", " ", "a", "p", "i", "K", "e", "y", " ", "=", " ", "\"", "s", "k", "-", "1", "2", "3", "4", "5", "6", "7", "8", "9", "0", "a", "b", "c", "d", "e", "f", "\"", ";">>

\* secrets: the short strings over a letter of each case, a digit and a
\* separator; the example; a key with twenty characters after its prefix; a
\* digest of 32 hexadecimal digits; a base64 string
FeatureSecrets ==
    Strings({"a", "B", "1", "-"}, MaxSecretLen)
      \cup {ExampleSecret, <<"s", "k", "-", "1", "2", "3", "4", "5", "6", "7", "8", "9", "0", "a", "b", "c", "d", "e", "f", "1", "2", "3", "4">>,
            <<"0", "1", "2", "3", "4", "5", "6", "7", "8", "9", "a", "b", "c", "d", "e", "f", "0", "1", "2", "3", "4", "5", "6", "7", "8", "9", "a", "b", "c", "d", "e", "f">>, <<"a", "B", "3", "d", "E", "5", "g", "H", "7", "j", "K", "=">>}

Contexts == {<<>>, ExampleContext, <<"A", "P", "I", "_", "K", "E", "Y", "=">>}

\* variable names: None, the empty string, and one of each score
VariableNames ==
    {[is_none |-> TRUE, value |-> <<>>]}
      \cup {[is_none |-> FALSE, value |-> v] : v \in {<<>>, <<"A", "P", "I", "_", "K", "E", "Y">>, <<"a", "p", "i", "K", "e", "y">>, <<"v", "a", "l", "u", "e">>}}

\* secrets as lists of character codes, some outside the vocabulary, some
\* longer than max_seq_len
CodeSecrets == Strings(0 .. VocabSize, MaxSeqLen + 1)

\* the calls of the pure functions, one for each choice of arguments
Requests ==
    {[op |-> "extract_features", secret_value |-> s, context |-> c, variable_name |-> v] :
        s \in FeatureSecrets, c \in Contexts, v \in VariableNames}
      \cup {[op |-> "tokenize_secret", secret_value |-> s] : s \in CodeSecrets}

InitFeatures ==
    Startup /\ request \in Requests /\ redis_cache = RedisCacheManager(FALSE)

ExtractFeatures(secret_value, context, variable_name) ==
    /\ ret' = [op |-> "extract_features", secret_value |-> secret_value,
               context |-> context, variable_name |-> variable_name,
               val |-> extract_features(secret_value, context, variable_name)]
    /\ UNCHANGED <<heap_vars, analyzer_vars, env_vars, service_vars, cache_vars>>

TokenizeSecret(secret_value) ==
    /\ ret' = [op |-> "tokenize_secret", secret_value |-> secret_value,
               val |-> tokenize_secret(secret_value)]
    /\ UNCHANGED <<heap_vars, analyzer_vars, env_vars, service_vars, cache_vars>>

----------------------------------------------------------------------------
(* Cached analysis (service.py, calculate_enhanced_confidence; cache.py) *)

\* the characters of the secrets the service is called with, in the order of
\* their codes
CharTable == <<"-", "a", "B", "1">>

\* ord(char), scaled down with vocab_size
ord(char) == (CHOOSE i \in 1 .. Len(CharTable) : CharTable[i] = char) - 1

\* the secret as the tokenizer reads it: the codes of its characters
char_codes(secret_value) == [i \in 1 .. Len(secret_value) |-> ord(secret_value[i])]

\* the features that are whole numbers: the length, the character class and
\* format flags, the quote flag and the keyword count
IntegerFeatures == {1, 3, 4, 5, 6, 8, 9, 10, 12, 13}

\* the feature array as the encoder of the model reads it: the whole-numbered
\* features, the fractional ones left out
feature_array(features) ==
    [i \in 1 .. Len(features) |-> IF i \in IntegerFeatures THEN features[i] ELSE 0]

None == [is_none |-> TRUE, value |-> <<>>]

\* f"{secret_value}|{context}|{variable_name}" (line 154); its SHA-256
\* digest is kept as the text itself
cache_key(secret_value, context, variable_name) ==
    secret_value \o <<"|">> \o context \o <<"|">>
      \o (IF variable_name.is_none THEN <<"N", "o", "n", "e">> ELSE variable_name.value)

\* RedisCacheManager._get_cache_key
get_cache_key(key) == <<"llm_cache:">> \o key

\* json.dumps and json.loads of a string
json_dumps(value) == [json |-> <<"\"">> \o <<value>> \o <<"\"">>]
json_loads(text) == text.json[2]

\* RedisCacheManager.get (cache.py lines 52-64); entries live an hour,
\* longer than the minutes the model spans
redis_get(cache, key) ==
    IF ~cache.is_connected
    THEN None
    ELSE IF get_cache_key(key) \in DOMAIN cache.data /\ cache.data[get_cache_key(key)].json # <<>>
    THEN [is_none |-> FALSE, value |-> json_loads(cache.data[get_cache_key(key)])]
    ELSE None

\* RedisCacheManager.set (cache.py lines 66-76)
redis_set(cache, key, value) ==
    IF ~cache.is_connected
    THEN cache
    ELSE [cache EXCEPT !.data = (get_cache_key(key) :> json_dumps(value)) @@ @]

\* lines 169-177 of calculate_enhanced_confidence
confidence_level(result, traditional_confidence) ==
    IF Greater(result.confidence, <<8, 10>>) \/ result.prediction = "high"
    THEN "high"
    ELSE IF Greater(result.confidence, <<6, 10>>) \/ result.prediction = "medium"
    THEN "medium"
    ELSE IF result.prediction = "false_positive"
    THEN "low"
    ELSE traditional_confidence

\* lines 165-177: what the active model answers for the input
computed_confidence(m, L, secret_value, context, traditional_confidence, variable_name) ==
    CHOOSE out \in
      {IF f.raised # "none"
       THEN [raised |-> f.raised]
       ELSE LET result == forward(m, L, char_codes(secret_value), feature_array(f.features))
            IN  IF "raised" \in DOMAIN result
                THEN [raised |-> result.raised]
                ELSE [value |-> confidence_level(result, traditional_confidence)] :
         f \in {extract_features(secret_value, context, variable_name)}} : TRUE

\* calculate_enhanced_confidence (lines 149-182): whether the cache answered,
\* the value returned or the exception raised, and the counters and the
\* cache after the call
calculate_enhanced_confidence(secret_value, context, traditional_confidence, variable_name) ==
    LET key == cache_key(secret_value, context, variable_name)
    IN  CHOOSE out \in
          {IF ~cached.is_none
           THEN [cache |-> "hit", val |-> [value |-> cached.value],
                 cache_hits |-> cache_hits + 1, cache_misses |-> cache_misses,
                 redis_cache |-> redis_cache]
           ELSE [cache |-> "miss", val |-> r,
                 cache_hits |-> cache_hits, cache_misses |-> cache_misses + 1,
                 redis_cache |-> IF "raised" \in DOMAIN r THEN redis_cache
                                 ELSE redis_set(redis_cache, key, r.value)] :
             cached \in {redis_get(redis_cache, key)},
             r \in {computed_confidence(models[model], layer_objs, secret_value, context,
                                        traditional_confidence, variable_name)}} : TRUE

\* a call of analyzer.calculate_enhanced_confidence
CalculateEnhancedConfidence(secret_value, context, traditional_confidence, variable_name) ==
    /\ cache_hits + cache_misses < MaxLookups
    /\ \E out \in {calculate_enhanced_confidence(secret_value, context,
                                                  traditional_confidence, variable_name)} :
          /\ cache_hits' = out.cache_hits
          /\ cache_misses' = out.cache_misses
          /\ redis_cache' = out.redis_cache
          /\ ret' = [op |-> "calculate_enhanced_confidence",
                     secret_value |-> secret_value, context |-> context,
                     variable_name |-> variable_name, cache |-> out.cache,
                     val |-> out.val]
    /\ UNCHANGED <<heap_vars, analyzer_vars, env_vars, analysis_cache, api_keys,
                   training_db, analysis_db>>

\* the service with or without a Redis server within reach
InitCache ==
    /\ Startup
    /\ request = [op |-> "none"]
    /\ \E is_connected \in BOOLEAN : redis_cache = RedisCacheManager(is_connected)

\* the secrets the analyzer is asked about
AnalyzedSecrets == {<<"a">>, <<"B", "1">>}

----------------------------------------------------------------------------
(* POST /analyze (service.py, analyze_secret) *)

\* the characters str.strip removes from both ends and \s matches
Whitespace == {" ", "TAB", "LF", "CR"}

\* _categorize_secret (lines 594-605); re.match anchors at the start
categorize_secret(secret_value) ==
    IF /\ (startswith(secret_value, <<"s", "k">>) \/ startswith(secret_value, <<"p", "k">>))
       /\ Len(secret_value) >= 3 /\ secret_value[3] \in {"_", "-"}
    THEN "API Key"
    ELSE IF startswith(secret_value, <<"A", "K", "I", "A", "I">>) THEN "AWS API Key"
    ELSE IF startswith(secret_value, <<"g", "h", "p", "_">>) THEN "GitHub Token"
    ELSE IF /\ startswith(secret_value, <<"x", "o", "x">>)
            /\ Len(secret_value) >= 5
            /\ secret_value[4] \in {"b", "a", "p"} /\ secret_value[5] = "-"
    THEN "Slack Token"
    ELSE IF startswith(secret_value, <<"S", "G", ".">>) THEN "SendGrid API Key"
    ELSE IF \E scheme \in {<<"m", "y", "s", "q", "l", ":", "/", "/">>, <<"p", "o", "s", "t", "g", "r", "e", "s", "q", "l", ":", "/", "/">>, <<"m", "o", "n", "g", "o", "d", "b", ":", "/", "/">>, <<"r", "e", "d", "i", "s", ":", "/", "/">>} :
               startswith(secret_value, scheme)
    THEN "Database URL"
    ELSE IF /\ startswith(secret_value, <<"B", "e", "a", "r", "e", "r">>)
            /\ Len(secret_value) >= 7 /\ secret_value[7] \in Whitespace
    THEN "Bearer Token"
    ELSE IF startswith(secret_value, <<"-", "-", "-", "-", "-", "B", "E", "G", "I", "N">>) THEN "Certificate/Private Key"
    ELSE IF Len(secret_value) >= 64 THEN "Cryptographic Key"
    ELSE "Potential Secret"

\* _assess_risk_level (lines 607-618)
assess_risk_level(secret_value, context) ==
    LET context_lower == lower(context)
    IN  IF contains(context_lower, <<"a", "u", "t", "h", "o", "r", "i", "z", "a", "t", "i", "o", "n">>) \/ contains(context_lower, <<"b", "e", "a", "r", "e", "r">>)
        THEN "critical"
        ELSE IF contains(context_lower, <<"s", "t", "r", "i", "p", "e">>) \/ contains(context_lower, <<"p", "a", "y", "m", "e", "n", "t">>)
        THEN "high"
        ELSE IF contains(context_lower, <<"a", "w", "s">>) \/ contains(context_lower, <<"c", "l", "o", "u", "d">>)
        THEN "high"
        ELSE IF \/ contains(context_lower, <<"a", "p", "i">>) \/ contains(context_lower, <<"k", "e", "y">>)
                \/ contains(context_lower, <<"t", "o", "k", "e", "n">>)
        THEN "medium"
        ELSE "low"

\* entropy > 3.5 (line 806): the entropy of a text is at most the logarithm
\* of the number of its distinct characters, so a text needs twelve of them;
\* every secret the model analyzes has fewer
entropy_over_threshold(entropy) ==
    SumSeq([i \in 1 .. entropy.length |->
               IF i \in DOMAIN entropy.counts THEN entropy.counts[i] ELSE 0]) >= 12

\* the row store_analysis_request adds (database.py lines 143-162), the
\* confidence in tenths; request id, user agent and processing time are not
\* kept, request_obj.state has no api_key
analysis_row(client_ip, secret_type, risk_level, confidence, cache_hit) ==
    [client_ip |-> client_ip, secret_type |-> secret_type, risk_level |-> risk_level,
     confidence |-> confidence, cache_hit |-> cache_hit, api_key_hash |-> ""]

\* analyze_secret (lines 784-880) for a request that passed validation
analyze_secret(secret_value, context, variable_name, client_ip) ==
    \E out \in {calculate_enhanced_confidence(secret_value, context, "low", variable_name)} :
      /\ cache_hits' = out.cache_hits
      /\ cache_misses' = out.cache_misses
      /\ redis_cache' = out.redis_cache
      /\ IF "raised" \in DOMAIN out.val
         THEN /\ analysis_db' = Append(analysis_db,
                                       analysis_row(client_ip, "error", "unknown", 0, FALSE))
              /\ ret' = [op |-> "analyze_secret", secret_value |-> secret_value,
                         context |-> context, variable_name |-> variable_name,
                         val |-> [enhanced_confidence |-> "low", method |-> "error",
                                  is_likely_secret |-> FALSE, category |-> "Unknown",
                                  risk_level |-> "low"]]
         ELSE LET level    == out.val.value
                  entropy  == calculate_entropy(secret_value)
                  category == categorize_secret(secret_value)
                  risk     == assess_risk_level(secret_value, context)
                  total_requests == out.cache_hits + out.cache_misses
              IN  /\ analysis_db' =
                        Append(analysis_db,
                               analysis_row(client_ip, category, risk,
                                            IF level \in {"high", "medium", "low"}
                                            THEN (IF level = "high" THEN 10 ELSE 0)
                                            ELSE 5,
                                            total_requests > 0 /\ out.cache_hits > 0))
                  /\ ret' = [op |-> "analyze_secret", secret_value |-> secret_value,
                             context |-> context, variable_name |-> variable_name,
                             val |-> [enhanced_confidence |-> level,
                                      method |-> "llm_hybrid",
                                      is_likely_secret |->
                                          (level # "low" \/ entropy_over_threshold(entropy)),
                                      category |-> category,
                                      risk_level |-> risk]]

\* an /analyze request that has passed authentication, rate limiting and
\* validation
AnalyzeSecret(secret_value, context, variable_name, client_ip) ==
    /\ cache_hits + cache_misses < MaxLookups
    /\ analyze_secret(secret_value, context, variable_name, client_ip)
    /\ UNCHANGED <<heap_vars, analyzer_vars, env_vars, analysis_cache, api_keys,
                   training_db>>

----------------------------------------------------------------------------
(* POST /train (service.py, train_model) *)

\* training_samples[-10:]
last_samples(training_samples) ==
    SubSeq(training_samples, Max(1, Len(training_samples) - TrainWindow + 1),
           Len(training_samples))

\* the row store_training_sample adds (database.py lines 122-138), the
\* confidence in tenths
training_row(features, label, user_action, model_version) ==
    [features |-> features, label |-> label, user_action |-> user_action,
     confidence_score |-> 5, model_version |-> model_version]

\* train_model (lines 961-1026) for a request that passed validation: the
\* features the client sent are not read.  The buffer holds the secret as the
\* tokenizer reads it.  The model file save_model writes is not kept.
train_model(secret_value, context, variable_name, user_action, label) ==
    \E f \in {extract_features(secret_value, context, variable_name)} :
      IF f.raised # "none"
      THEN /\ ret' = [op |-> "train_model", secret_value |-> secret_value,
                      context |-> context, variable_name |-> variable_name,
                      user_action |-> user_action, label |-> label,
                      val |-> [status |-> "error", error |-> f.raised]]
           /\ UNCHANGED <<models, training_db>>
      ELSE \E features_list \in {feature_array(f.features)} :
           \E added \in {add_training_sample(models[model], char_codes(secret_value),
                                             features_list, label)} :
             /\ training_db' = Append(training_db,
                                      training_row(features_list, label, user_action,
                                                   active_version))
             /\ IF Len(added.training_samples) >= MinTrainSamples
                THEN \E r \in {train(added, layer_objs,
                                     last_samples(added.training_samples), 1)} :
                       /\ models' = [models EXCEPT ![model] = r.model]
                       /\ ret' = [op |-> "train_model", secret_value |-> secret_value,
                                  context |-> context, variable_name |-> variable_name,
                                  user_action |-> user_action, label |-> label,
                                  val |-> IF "raised" \in DOMAIN r.result
                                          THEN [status |-> "error",
                                                error  |-> r.result.raised]
                                          ELSE [status |-> "trained",
                                                samples_processed |->
                                                    r.result.samples_processed,
                                                average_loss |-> r.result.average_loss,
                                                model_updated |-> TRUE,
                                                features_calculated |-> Len(features_list),
                                                training_samples_stored |-> TRUE]]
                ELSE /\ models' = [models EXCEPT ![model] = added]
                     /\ ret' = [op |-> "train_model", secret_value |-> secret_value,
                                context |-> context, variable_name |-> variable_name,
                                user_action |-> user_action, label |-> label,
                                val |-> [status |-> "sample_added",
                                         total_samples |-> Len(added.training_samples),
                                         features_calculated |-> Len(features_list),
                                         training_samples_stored |-> TRUE]]

\* a /train request that has passed authentication, rate limiting and
\* validation
TrainModel(secret_value, context, variable_name, user_action, label) ==
    /\ Len(models[model].training_samples) < MaxTrainRequests
    /\ train_model(secret_value, context, variable_name, user_action, label)
    /\ UNCHANGED <<layer_objs, analyzer_vars, env_vars, cache_vars, redis_cache, api_keys,
                   analysis_db>>

\* the secrets of /train requests: TrainingSample validates the label and
\* the user action, not the secret
TrainedSecrets == {<<"a">>, <<>>}

----------------------------------------------------------------------------
(* Authentication of /analyze and /train (service.py, get_api_key) *)

Some(value) == [is_none |-> FALSE, value |-> value]

\* security_manager.jwt_secret
jwt_secret == "test-jwt-secret"

\* the bearer tokens that decode as JWTs: the secret they were signed with
\* and the minute they expire
JwtTokens ==
    ("jwt-valid" :> [secret |-> jwt_secret, exp |-> 60, sub |-> "admin"])
    @@ ("jwt-expired" :> [secret |-> jwt_secret, exp |-> -1, sub |-> "admin"])
    @@ ("jwt-forged" :> [secret |-> "another-secret", exp |-> 60, sub |-> "admin"])

\* SecurityManager.verify_jwt_token (lines 661-669): the payload, or None
verify_jwt_token(token) ==
    IF /\ token \in DOMAIN JwtTokens
       /\ JwtTokens[token].secret = jwt_secret
       /\ JwtTokens[token].exp > now
    THEN Some([sub |-> JwtTokens[token].sub, type |-> "access"])
    ELSE None

\* SecurityManager.verify_api_key (lines 641-643)
verify_api_key(api_key) == api_key \in api_keys

\* the object Header(None, alias="X-API-KEY") constructs (line 721): a
\* parameter declaration, not the value of the request's header
HeaderParam == "Header(None, alias=X-API-KEY)"

\* get_api_key (lines 715-742): the identity returned, or the HTTPException
\* raised.  credentials is None when the request has no Authorization header.
get_api_key(credentials) ==
    IF credentials.is_none
    THEN LET api_key == HeaderParam
         IN  IF api_key # "" /\ verify_api_key(api_key)
             THEN [value |-> api_key]
             ELSE [raised |-> "HTTPException", status_code |-> 401,
                   detail |-> "API key required"]
    ELSE IF /\ credentials.value.scheme \in {"Bearer", "bearer", "BEARER"}
            /\ ~verify_jwt_token(credentials.value.credentials).is_none
    THEN [value |-> "payload"]
    ELSE IF /\ credentials.value.scheme \in {"Bearer", "bearer", "BEARER"}
            /\ verify_api_key(credentials.value.credentials)
    THEN [value |-> credentials.value.credentials]
    ELSE [raised |-> "HTTPException", status_code |-> 401,
          detail |-> "Invalid authentication credentials"]

\* A request to a protected endpoint passes get_api_key, then
\* check_rate_limit, then its handler; request is the request being served
\* and ret the step it has reached.

in_flight ==
    \/ ret.op = "receive"
    \/ ret.op = "get_api_key" /\ "value" \in DOMAIN ret.val
    \/ ret.op = "check_rate_limit" /\ ret.val = TRUE

Receive(endpoint, credentials, x_api_key, client_ip) ==
    /\ ~in_flight
    /\ request' = [op |-> "request", endpoint |-> endpoint, credentials |-> credentials,
                   x_api_key |-> x_api_key, client_ip |-> client_ip]
    /\ ret' = [op |-> "receive"]
    /\ UNCHANGED <<heap_vars, analyzer_vars, config, pending, rate_limits, now, calls,
                   service_vars, cache_vars>>

GetApiKey ==
    /\ ret.op = "receive"
    /\ ret' = [op |-> "get_api_key", val |-> get_api_key(request.credentials)]
    /\ UNCHANGED <<heap_vars, analyzer_vars, env_vars, service_vars, cache_vars>>

CheckRateLimit ==
    /\ ret.op = "get_api_key"
    /\ "value" \in DOMAIN ret.val
    /\ check_rate_limit(request.client_ip)

Handle ==
    /\ ret.op = "check_rate_limit"
    /\ ret.val = TRUE
    /\ IF request.endpoint = "/analyze"
       THEN AnalyzeSecret(<<"a">>, <<>>, None, request.client_ip)
       ELSE TrainModel(<<"a">>, <<>>, None, "confirmed_secret", "high")

\* the Authorization headers of requests: none, or a bearer token that is a
\* configured key, an unknown key, or a JWT
Credentials ==
    {None} \cup {Some([scheme |-> "Bearer", credentials |-> token]) :
                    token \in {"test-key-123", "invalid-key", "jwt-valid", "jwt-expired",
                               "jwt-forged"}}

\* the X-API-KEY headers of requests: none, a configured key, an unknown key
ApiKeyHeaders == {None, Some("test-key-123"), Some("invalid-key")}

----------------------------------------------------------------------------
(* Request validation (service.py, AnalyzeRequest) *)

\* Request strings are kept as runs: a sequence of [char, count] stands for
\* the string with count copies of each char in turn, so that lengths around
\* the limit of MaxSecretChars are exact.

\* len(v)
text_len(v) == SumSeq([i \in 1 .. Len(v) |-> v[i].count])

\* v.replace(old, new) for single characters; new = "" removes old
replace(v, old, new) ==
    LET kept == IF new = "" THEN SelectSeq(v, LAMBDA run : run.char # old) ELSE v
    IN  [i \in 1 .. Len(kept) |->
            IF kept[i].char = old THEN [kept[i] EXCEPT !.char = new] ELSE kept[i]]

\* v.strip()
strip(v) ==
    LET inner == {i \in 1 .. Len(v) : v[i].char \notin Whitespace}
    IN  IF inner = {}
        THEN <<>>
        ELSE LET first == CHOOSE i \in inner : \A j \in inner : i <= j
                 last  == CHOOSE i \in inner : \A j \in inner : j <= i
             IN  SubSeq(v, first, last)

\* AnalyzeRequest.validate_secret_value (lines 64-72): the value the request
\* carries after validation, or the error raised
validate_secret_value(v) ==
    IF v = <<>>
    THEN [raised |-> "ValueError"]
    ELSE IF text_len(v) > MaxSecretChars
    THEN [raised |-> "ValueError"]
    ELSE [value |-> strip(replace(replace(replace(v, "NUL", ""), "CR", ""), "LF", " "))]

\* strings of at most MaxRuns runs over a letter, the three characters the
\* validator rewrites, a blank and a tab, with run lengths around the limit
SecretValues ==
    Strings({[char |-> c, count |-> n] :
                c \in {"a", " ", "NUL", "CR", "LF", "TAB"},
                n \in {1, MaxSecretChars - 1, MaxSecretChars, MaxSecretChars + 1}},
            MaxRuns)

InitValidate ==
    /\ Startup
    /\ request \in {[op |-> "validate_secret_value", v |-> v] : v \in SecretValues}
    /\ redis_cache = RedisCacheManager(FALSE)

ValidateSecretValue(v) ==
    /\ ret' = [op |-> "validate_secret_value", v |-> v, val |-> validate_secret_value(v)]
    /\ UNCHANGED <<heap_vars, analyzer_vars, env_vars, service_vars, cache_vars>>

----------------------------------------------------------------------------
(* Specifications *)

\* samples given to training
Sample(secret_value, features, label) ==
    [secret_value |-> secret_value, features |-> features, label |-> label]

\* a valid sample, one with a label that is no confidence level, one with a
\* feature vector that is too short, and one with an empty secret
TrainingSamples ==
    {Sample(<<1>>, FeatureVector(NumFeatures, 0), "high"),
     Sample(<<1>>, FeatureVector(NumFeatures, 0), "critical"),
     Sample(<<1>>, FeatureVector(NumFeatures - 1, 0), "high"),
     Sample(<<>>, FeatureVector(NumFeatures, 0), "low")}

\* sample lists: the empty list, every single sample, and every sample after
\* one with a label that is no confidence level
SampleLists ==
    {<<>>} \cup {<<x>> : x \in TrainingSamples}
           \cup {<<Sample(<<1>>, FeatureVector(NumFeatures, 0), "critical"), y>> :
                    y \in TrainingSamples}

\* The version manager with training and loading on the active model
Next ==
    \/ \E n \in {"default", "v1"} : create_model_version(n)
    \/ \E n \in Names : switch_model_version(n)
    \/ enable_ab_testing("v1", "default")
    \/ disable_ab_testing
    \/ reset_model
    \/ TrainStep(<<1>>, FeatureVector(NumFeatures, 0), "high")
    \/ \E d \in Documents : LoadModel(d)

Spec == Init /\ [][Next]_vars

\* A/B testing and performance tracking
NextAB ==
    \/ create_model_version("v1")
    \/ \E a, b \in {"default", "v1"} : enable_ab_testing(a, b)
    \/ disable_ab_testing
    \/ \E v \in {"default", "v1"}, c \in BOOLEAN : record_prediction_result(v, c)
    \/ get_ab_test_results

SpecAB == Init /\ [][NextAB]_vars

\* One model: inference and training
NextTrain ==
    \/ \E s \in Secrets, f \in Features : Forward(s, f)
    \/ \E s \in {<<>>, <<1>>}, f \in Features \ {FeatureVector(NumFeatures, 1)}, l \in Labels :
          TrainStep(s, f, l)
    \/ \E samples \in SampleLists, epochs \in 0 .. MaxEpochs : Train(samples, epochs)
    \/ AddTrainingSample(<<1>>, FeatureVector(NumFeatures, 0), "high")

SpecTrain == Init /\ [][NextTrain]_vars

\* Models saved and loaded: files written by save_model and files found on disk
NextLoad ==
    \/ Len(models) < 2 /\ reset_model
    \/ Train(<<Sample(<<1>>, FeatureVector(NumFeatures, 0), "high")>>, 1)
    \/ \E src \in 1 .. Len(models) : SaveLoad(src)
    \/ \E file \in Files : LoadModel(file)

SpecLoad == Init /\ [][NextLoad]_vars

\* Requests served concurrently: /train, /analyze, /versions
NextConc ==
    \/ \E l \in {"high", "medium"} :
          TrainStepBegin(<<1>>, FeatureVector(NumFeatures, 0), l)
    \/ \E i \in 1 .. MaxPending : TrainStepEnd(i)
    \/ Forward(<<1>>, FeatureVector(NumFeatures, 0))
    \/ create_model_version("v1")
    \/ \E n \in {"default", "v1"} : switch_model_version(n)

SpecConc == Init /\ [][NextConc]_vars

\* The pure functions of the analyzer: feature extraction and tokenizer
NextFeatures ==
    \/ /\ request.op = "extract_features"
       /\ ExtractFeatures(request.secret_value, request.context, request.variable_name)
    \/ /\ request.op = "tokenize_secret"
       /\ TokenizeSecret(request.secret_value)

SpecFeatures == InitFeatures /\ [][NextFeatures]_vars

\* confidences given to calibrate_confidence, in tenths: one below 0 and one
\* above 1
Confidences == {-4, 16}

\* Confidence calibration of the active model
NextCalibrate ==
    \E p \in Confidences, l \in {"high", "low"} : CalibrateConfidence(p, l)

SpecCalibrate == Init /\ [][NextCalibrate]_vars

\* Rate limiting of requests by client address
NextRate ==
    \/ \E ip \in ClientIPs : check_rate_limit(ip)
    \/ Tick

SpecRate == Init /\ [][NextRate]_vars

\* Cached analysis while versions are created and switched and the model reset
NextCache ==
    \/ \E s \in AnalyzedSecrets : CalculateEnhancedConfidence(s, <<>>, "low", None)
    \/ create_model_version("v1")
    \/ \E n \in Names : switch_model_version(n)
    \/ reset_model

SpecCache == InitCache /\ [][NextCache]_vars

\* /train requests on the active model
NextTrainModel ==
    \E s \in TrainedSecrets, l \in {"high"} :
        TrainModel(s, <<>>, None, "confirmed_secret", l)

SpecTrainModel == Init /\ [][NextTrainModel]_vars

\* Requests to the protected endpoints
NextAuth ==
    \/ \E endpoint \in {"/analyze", "/train"}, credentials \in Credentials,
          x_api_key \in ApiKeyHeaders, client_ip \in {"10.0.0.1"} :
          Receive(endpoint, credentials, x_api_key, client_ip)
    \/ GetApiKey
    \/ CheckRateLimit
    \/ Handle

SpecAuth == InitCache /\ [][NextAuth]_vars

\* Validation of the secret of an /analyze request
NextValidate ==
    /\ request.op = "validate_secret_value"
    /\ ValidateSecretValue(request.v)

SpecValidate == InitValidate /\ [][NextValidate]_vars

----------------------------------------------------------------------------
(* Properties of the version manager *)

\* the model a version name stands for
version_model(version_name) ==
    IF version_name = "default" THEN default_model ELSE model_versions[version_name]

\* C1: analyzer.model is always the model of the version active_version names:
\* the built-in default model when active_version is "default", and the
\* stored snapshot model_versions[active_version] otherwise.
C1_ActiveModelIsActiveVersion ==
    model = version_model(active_version)

\* C2: create_model_version with a name that is already stored returns false
\* and changes nothing: the stored names, the stored snapshot of that name
\* and the performance counters of every version stay as they were.
C2_CreateExistingChangesNothing ==
    [][(/\ ret'.op = "create_model_version"
        /\ ret'.version_name \in DOMAIN model_versions)
       => (/\ ret'.val = FALSE
           /\ UNCHANGED <<model_versions, version_performance, models, layer_objs>>)]_vars

\* create_model_version has refused a stored name whose counters had advanced
C2_Witness ==
    /\ ret.op = "create_model_version"
    /\ ret.val = FALSE
    /\ ret.version_name \in DOMAIN model_versions
    /\ version_performance[ret.version_name].total_predictions > 0

\* C3: the name "default" always exists and is never stored twice:
\* create_model_version("default") fails and no stored snapshot is named
\* "default".
C3_DefaultIsNeverStored ==
    /\ "default" \notin DOMAIN model_versions
    /\ (ret.op = "create_model_version" /\ ret.version_name = "default")
          => ret.val = FALSE

\* every learnable parameter of a model, layer weights included
parameters(m, L) ==
    save_model(m, L, config).data.weights
       @@ [layers |-> save_model(m, L, config).data.layers]

\* the models the analyzer holds other than the active one
other_models ==
    ({default_model} \cup {model_versions[n] : n \in DOMAIN model_versions}) \ {model}

\* C4: a version snapshot owns its parameters: a write to the active model by
\* train_step or load_model (per-layer weights included) changes no parameter
\* of any other model the analyzer holds, be it a snapshot or the source of
\* the active snapshot.
C4_SnapshotsAreIndependent ==
    [][ret'.op \in {"train_step", "load_model"}
       => \A id \in other_models :
             parameters(models'[id], layer_objs') = parameters(models[id], layer_objs)]_vars

----------------------------------------------------------------------------
(* Properties of A/B testing *)

\* both groups have more than MinABPredictions predictions
enough_data ==
    /\ group_performance(ab_test_groups["A"]).total_predictions > MinABPredictions
    /\ group_performance(ab_test_groups["B"]).total_predictions > MinABPredictions

\* group x has strictly higher accuracy than group y
more_accurate(x, y) ==
    Greater(group_performance(ab_test_groups[x]).accuracy,
            group_performance(ab_test_groups[y]).accuracy)

\* get_ab_test_results has just reported on an enabled test
reported == ret.op = "get_ab_test_results" /\ ab_testing_enabled

\* C10 as stated: a group is the winner only when both groups have more than
\* 10 predictions and its accuracy is strictly higher; in every other case
\* the winner is "insufficient_data".
C10_WinnerOrInsufficientData ==
    reported =>
       /\ ret.val.winner = "A" <=> (enough_data /\ more_accurate("A", "B"))
       /\ ret.val.winner = "B" <=> (enough_data /\ more_accurate("B", "A"))
       /\ ret.val.winner \in {"A", "B", "insufficient_data"}

\* C10 amended: a group is the winner only when both groups have more than 10
\* predictions and its accuracy is strictly higher; with more than 10
\* predictions each and equal accuracies the winner is "tie"; the winner is
\* "insufficient_data" exactly when a group has 10 predictions or fewer.
C10_WinnerTieOrInsufficientData ==
    reported =>
       /\ ret.val.winner = "A" <=> (enough_data /\ more_accurate("A", "B"))
       /\ ret.val.winner = "B" <=> (enough_data /\ more_accurate("B", "A"))
       /\ ret.val.winner = "tie" <=>
             (enough_data /\ ~more_accurate("A", "B") /\ ~more_accurate("B", "A"))
       /\ ret.val.winner = "insufficient_data" <=> ~enough_data

\* a winner has been declared between two different versions
C10_Witness ==
    /\ reported
    /\ ab_test_groups["A"] # ab_test_groups["B"]
    /\ ret.val.winner = "B"

----------------------------------------------------------------------------
(* Properties of the model: forward, train_step and train *)

\* C5: train with an empty sample list returns the error "No training samples
\* provided" and leaves is_trained, the classifier, the classifier bias and
\* the sample buffer as they were.
C5_TrainEmptyChangesNothing ==
    [][(ret'.op = "train" /\ ret'.training_samples = <<>>)
       => (/\ ret'.val = [error |-> "No training samples provided"]
           /\ models'[model].is_trained = models[model].is_trained
           /\ models'[model].classifier = models[model].classifier
           /\ models'[model].classifier_bias = models[model].classifier_bias
           /\ models'[model].training_samples = models[model].training_samples)]_vars

\* train has been given the empty list by a trained model with a buffered sample
C5_Witness ==
    /\ ret.op = "train"
    /\ ret.training_samples = <<>>
    /\ "error" \in DOMAIN ret.val
    /\ models[model].is_trained
    /\ models[model].training_samples # <<>>

\* C6: the tokenizer maps the empty secret to the empty sequence, and forward
\* with an empty secret and any feature vector returns exactly the prediction
\* "low" with confidence 0.0 and no probabilities, raises nothing and
\* modifies no model state.
C6_ForwardEmptySecret ==
    [][(ret'.op = "forward" /\ ret'.secret_value = <<>>)
       => (/\ tokenize_secret(ret'.secret_value) = <<>>
           /\ ret'.val = [prediction |-> "low", confidence |-> <<0, 1>>]
           /\ UNCHANGED <<models, layer_objs>>)]_vars

\* forward has answered an empty secret that came with too few features
C6_Witness ==
    /\ ret.op = "forward"
    /\ ret.secret_value = <<>>
    /\ Len(ret.features) # NumFeatures
    /\ "prediction" \in DOMAIN ret.val

\* C7: train and train_step never raise: for every sample with NumFeatures
\* features, the empty secret included, and every number of epochs >= 0,
\* train_step returns a loss and train returns its statistics.
C7_TrainingNeverRaises ==
    /\ (ret.op = "train_step" /\ Len(ret.features) = NumFeatures)
          => "raised" \notin DOMAIN ret.val
    /\ (/\ ret.op = "train"
        /\ \A i \in 1 .. Len(ret.training_samples) :
              Len(ret.training_samples[i].features) = NumFeatures)
          => "raised" \notin DOMAIN ret.val

\* the four labels train_step's label_map knows
ValidLabels == {labels[c] : c \in Classes}

\* train has completed on the single sample with a label outside ValidLabels
trained_invalid_label ==
    /\ ret.op = "train"
    /\ Len(ret.training_samples) = 1
    /\ ret.training_samples[1].label \notin ValidLabels
    /\ "average_loss" \in DOMAIN ret.val

relabelled(training_samples) ==
    [i \in 1 .. Len(training_samples) |->
        IF training_samples[i].label \in ValidLabels
        THEN training_samples[i]
        ELSE [training_samples[i] EXCEPT !.label = "low"]]

step(c, predicted, target) ==
    IF predicted = target THEN 0
    ELSE IF c = target THEN learning_rate \div 10
    ELSE IF c = predicted THEN -(learning_rate \div 10)
    ELSE 0

\* C9: train_step on a non-empty secret applies exactly the simplified
\* update: when the predicted class differs from the target, learning_rate*0.1
\* is added to the target's bias and classifier column and subtracted from the
\* predicted class's; every other entry is unchanged, and nothing changes
\* when the prediction equals the target.
C9_TrainStepUpdate ==
    [][(/\ ret'.op = "train_step"
        /\ ret'.secret_value # <<>>
        /\ Len(ret'.features) = NumFeatures)
       => \A result \in {forward(models[model], layer_objs, ret'.secret_value,
                                  ret'.features)} :
          \A predicted \in {argmax(result.probabilities)},
             target \in {label_index(ret'.target_label)} :
             /\ \A c \in Classes :
                   models'[model].classifier_bias[c] =
                      models[model].classifier_bias[c] + step(c, predicted, target)
             /\ \A r \in Rows, c \in Classes :
                   models'[model].classifier[r][c] =
                      models[model].classifier[r][c] + step(c, predicted, target)
             /\ models'[model] = [models[model] EXCEPT
                   !.classifier = models'[model].classifier,
                   !.classifier_bias = models'[model].classifier_bias]]_vars

\* train_step has moved the classifier of a model it had already moved
C9_Witness ==
    /\ ret.op = "train_step"
    /\ ret.secret_value # <<>>
    /\ "loss" \in DOMAIN ret.val
    /\ \E c \in Classes : models[model].classifier_bias[c] >= 2 * (learning_rate \div 10)

----------------------------------------------------------------------------
(* Properties of save_model and load_model *)

\* the model that wrote the file and the model that loaded it
saved_model  == models[ret'.src]
loaded_model == models'[ret'.target]

\* C11: when a model loads the file another model (or itself) has just saved,
\* the five arrays, every layer's attention and feed-forward weights and
\* is_trained of the loading model equal those of the saving model, and
\* forward gives the same result on both for every input
C11_SaveLoadRoundTrip ==
    [][ret'.op = "save_load" =>
         /\ \A k \in {"token_embedding", "feature_embedding", "pos_encoding",
                       "classifier", "classifier_bias", "is_trained"} :
                loaded_model[k] = saved_model[k]
         /\ Len(loaded_model.layers) = Len(saved_model.layers)
         /\ \A i \in 1 .. Len(saved_model.layers) :
                layer_objs'[loaded_model.layers[i]] = layer_objs[saved_model.layers[i]]
         /\ \A s \in Secrets, f \in Features :
                forward(loaded_model, layer_objs', s, f)
                   = forward(saved_model, layer_objs, s, f)]_vars

\* a model has loaded the file of another model that differed from it in
\* the classifier, in a layer and in is_trained
C11_Witness ==
    /\ ret.op = "save_load"
    /\ ret.src # ret.target
    /\ ret.was.weights.classifier # models[ret.target].classifier
    /\ ret.was.layers # [i \in 1 .. Len(models[ret.target].layers) |->
                           block_get_weights(layer_objs[models[ret.target].layers[i]])]
    /\ ret.was.is_trained # models[ret.target].is_trained

\* the keys load_model reads with a subscript, all present in document d
has_expected_keys(d) ==
    /\ {"config", "weights", "layers"} \subseteq DOMAIN d
    /\ {"vocab_size", "hidden_dim", "num_layers", "num_heads", "max_seq_len",
        "num_classes"} \subseteq DOMAIN d.config
    /\ {"token_embedding", "feature_embedding", "pos_encoding", "classifier",
        "classifier_bias"} \subseteq DOMAIN d.weights
    /\ \A i \in 1 .. Len(d.layers) :
          /\ {"attention", "ffn"} \subseteq DOMAIN d.layers[i]
          /\ {"w_q", "w_k", "w_v", "w_o", "embed_dim", "num_heads"}
                \subseteq DOMAIN d.layers[i].attention
          /\ {"w1", "b1", "w2", "b2", "ln_weight", "ln_bias", "hidden_dim", "ff_dim"}
                \subseteq DOMAIN d.layers[i].ffn

\* the file is missing, cannot be parsed or lacks an expected key
missing_or_corrupt(file) ==
    \/ ~file.exists
    \/ ~file.parseable
    \/ ~has_expected_keys(file.data)

\* C12: load_model of a file that is missing or corrupt leaves the
\* configuration and every parameter of every model exactly as they were
C12_FailedLoadChangesNothing ==
    [][ret'.op = "load_model" /\ missing_or_corrupt(ret'.model_data)
          => UNCHANGED <<models, layer_objs, config>>]_vars

----------------------------------------------------------------------------
(* Properties of concurrent requests *)

\* a train_step call on model id m has adjusted the bias and not yet the classifier
update_under_way(m) == \E i \in 1 .. Len(pending) : pending[i].model = m

\* C13: no forward and no create_model_version copy observes the classifier
\* head of the active model between the bias adjustment and the weight
\* adjustment of a train_step; two training updates are never under way
\* together, and none is under way at a version switch
C13_SingleWriter ==
    /\ ret.op \in {"forward", "create_model_version"} => ~update_under_way(model)
    /\ ret.op = "switch_model_version" => pending = <<>>
    /\ Len(pending) <= 1

----------------------------------------------------------------------------
(* Properties of feature extraction and of the tokenizer *)

\* C14: for the secret sk-1234567890abcdef in the context
\* const apiKey = "sk-1234567890abcdef"; extract_features sets the known
\* prefix flag (entry 8) and the known pattern flag (entry 15) to 1
C14_ExampleFlags ==
    ret.op = "extract_features" /\ ret.secret_value = ExampleSecret
         /\ ret.context = ExampleContext
      => ret.val.raised = "none" /\ ret.val.features[8] = 1 /\ ret.val.features[15] = 1

\* C17: extract_features raises nothing and returns exactly 19 entries,
\* whatever the secret, the context and the variable name
C17_NineteenFeatures ==
    ret.op = "extract_features"
      => ret.val.raised = "none" /\ Len(ret.val.features) = NumFeatures

\* features were extracted from an empty secret in an empty context with no
\* variable name
C17_Witness ==
    /\ ret.op = "extract_features"
    /\ ret.secret_value = <<>>
    /\ ret.context = <<>>
    /\ ret.variable_name.is_none
    /\ Len(ret.val.features) = NumFeatures

\* C18: the tokenizer returns min(len(secret), max_seq_len) ids, the id at a
\* position is the character code there when that is below vocab_size and 0
\* otherwise, every id is in [0, vocab_size), and the result is empty exactly
\* when the secret is
C18_TokenizerOutput ==
    ret.op = "tokenize_secret" =>
       /\ Len(ret.val) = Min(Len(ret.secret_value), MaxSeqLen)
       /\ \A i \in 1 .. Len(ret.val) :
             /\ ret.val[i] = IF ret.secret_value[i] < VocabSize
                             THEN ret.secret_value[i] ELSE 0
             /\ ret.val[i] \in 0 .. VocabSize - 1
       /\ ret.val = <<>> <=> ret.secret_value = <<>>

\* a secret longer than max_seq_len with a character outside the vocabulary
\* among its first max_seq_len has been tokenized
C18_Witness ==
    /\ ret.op = "tokenize_secret"
    /\ Len(ret.secret_value) > MaxSeqLen
    /\ \E i \in 1 .. MaxSeqLen : ret.secret_value[i] >= VocabSize
    /\ Len(ret.val) = MaxSeqLen

----------------------------------------------------------------------------
(* Properties of confidence calibration *)

\* the history of label l in model m, empty when the label has none
history_of(m, l) ==
    IF l \in DOMAIN m.confidence_calibration THEN m.confidence_calibration[l] ELSE <<>>

----------------------------------------------------------------------------
(* Properties of forward *)

\* C16: for a non-empty secret and 19 features forward returns four
\* probabilities, each in [0, 1], that sum to 1; the prediction is the label
\* (in the order high, medium, low, false_positive) at the index of the
\* largest probability and the confidence is the probability at that index
C16_ForwardDistribution ==
    ret.op = "forward" /\ ret.secret_value # <<>> /\ Len(ret.features) = NumFeatures
      => /\ DOMAIN ret.val = {"prediction", "confidence", "probabilities"}
         /\ \A probs \in {ret.val.probabilities} :
              /\ Cardinality(DOMAIN probs) = 4
              /\ \A c \in DOMAIN probs :
                    /\ probs[c][2] > 0
                    /\ 0 <= probs[c][1] /\ probs[c][1] <= probs[c][2]
                    /\ probs[c][2] = probs[0][2]
              /\ SumSeq([i \in 1 .. 4 |-> probs[i - 1][1]]) = probs[0][2]
              /\ \E c \in DOMAIN probs :
                    /\ \A d \in DOMAIN probs : probs[d][1] <= probs[c][1]
                    /\ ret.val.prediction
                          = <<"high", "medium", "low", "false_positive">>[c + 1]
                    /\ ret.val.confidence = probs[c]

\* forward on a non-empty secret has returned probabilities that are not all
\* equal, the largest of them not the first
C16_Witness ==
    /\ ret.op = "forward"
    /\ ret.secret_value # <<>>
    /\ Len(ret.features) = NumFeatures
    /\ "probabilities" \in DOMAIN ret.val
    /\ ret.val.prediction # "high"
    /\ \E c \in Classes : ret.val.probabilities[c][1] < ret.val.confidence[1]

----------------------------------------------------------------------------
(* Properties of the attention blocks *)

\* C19: in every attention block num_heads divides embed_dim and head_dim is
\* their quotient, whatever set_weights and load_model have been given
C19_HeadsDivideEmbedDim ==
    \A id \in DOMAIN layer_objs :
       /\ layer_objs[id].attention.embed_dim % layer_objs[id].attention.num_heads = 0
       /\ layer_objs[id].attention.head_dim * layer_objs[id].attention.num_heads
             = layer_objs[id].attention.embed_dim

----------------------------------------------------------------------------
(* Properties of the rate limiter *)

\* the count kept for client ip in the current minute, 0 when there is none
current_count(limits, ip) ==
    IF ip \in DOMAIN limits /\ now \in DOMAIN limits[ip] THEN limits[ip][now] ELSE 0

\* C20: within a calendar minute the k-th check_rate_limit call of a client
\* returns true exactly when k is at most max_requests_per_minute; an
\* accepted call raises the client's count by one, a rejected call leaves it
\* unchanged, and the entries of the other clients are not touched
C20_RateLimit ==
    [][ret'.op = "check_rate_limit" =>
         \A ip \in {ret'.client_ip} :
           /\ ret'.val = (calls'[ip] <= max_requests_per_minute)
           /\ current_count(rate_limits', ip)
                 = current_count(rate_limits, ip) + (IF ret'.val THEN 1 ELSE 0)
           /\ \A other \in ClientIPs \ {ip} :
                 /\ other \in DOMAIN rate_limits' <=> other \in DOMAIN rate_limits
                 /\ other \in DOMAIN rate_limits => rate_limits'[other] = rate_limits[other]]_vars

\* a client has been rejected a second time in a minute later than the
\* first, while the other client has a count below the maximum
C20_Witness ==
    /\ ret.op = "check_rate_limit"
    /\ ~ret.val
    /\ now > 0
    /\ calls[ret.client_ip] = max_requests_per_minute + 2
    /\ \E other \in ClientIPs \ {ret.client_ip} :
          /\ current_count(rate_limits, other) > 0
          /\ current_count(rate_limits, other) < max_requests_per_minute

----------------------------------------------------------------------------
(* Frame and arithmetic of training *)

\* C23: train_step and train leave the token embedding, the feature
\* embedding, the positional table and every transformer layer of the model
\* as they were, whatever their outcome
C23_TrainingTouchesOnlyHead ==
    [][ret'.op \in {"train_step", "train"} =>
         /\ layer_objs' = layer_objs
         /\ \A id \in DOMAIN models :
               \A k \in {"token_embedding", "feature_embedding", "pos_encoding", "layers"} :
                  models'[id][k] = models[id][k]]_vars

\* train has changed the classifier of the model over two samples
C23_Witness ==
    /\ ret.op = "train"
    /\ Len(ret.training_samples) = 2
    /\ "model_updated" \in DOMAIN ret.val
    /\ \E c \in Classes : models[model].classifier_bias[c] # 0

\* the sum of the entries of the function f over the classes
class_sum(f) == SumSeq([i \in 1 .. NumClasses |-> f[i - 1]])

\* C29: train_step and train leave the sum of the four bias entries and, in
\* every row of the classifier, the sum over the four classes as they were
C29_UpdateIsZeroSum ==
    [][ret'.op \in {"train_step", "train"} =>
         /\ class_sum(models'[model].classifier_bias)
               = class_sum(models[model].classifier_bias)
         /\ \A r \in Rows :
               class_sum(models'[model].classifier[r])
                 = class_sum(models[model].classifier[r])]_vars

\* train_step has moved the bias of a model whose bias had been moved before
C29_Witness ==
    /\ ret.op = "train_step"
    /\ "loss" \in DOMAIN ret.val
    /\ \E c, d \in Classes :
          /\ models[model].classifier_bias[c] > 0
          /\ models[model].classifier_bias[d] < 0
    /\ \E c \in Classes, r \in Rows : models[model].classifier[r][c] < 0

\* the samples of the list whose feature vector has NumFeatures entries
with_all_features(training_samples) ==
    SelectSeq(training_samples, LAMBDA x : Len(x.features) = NumFeatures)

\* C26: train on a non-empty list of samples with non-empty secrets and
\* epochs >= 1 raises nothing, changes the model as training on the samples
\* with 19 features alone would, sets is_trained, returns epochs_trained =
\* epochs and model_updated = true, and leaves the sample buffer as it was
C26_TrainSkipsShortFeatures ==
    [][(/\ ret'.op = "train"
        /\ ret'.training_samples # <<>>
        /\ \A i \in 1 .. Len(ret'.training_samples) :
              ret'.training_samples[i].secret_value # <<>>
        /\ ret'.epochs >= 1)
       => /\ DOMAIN ret'.val = {"epochs_trained", "average_loss", "samples_processed",
                                "model_updated"}
          /\ ret'.val.epochs_trained = ret'.epochs
          /\ ret'.val.model_updated
          /\ models'[model].is_trained
          /\ models'[model].training_samples = models[model].training_samples
          /\ \A r \in {train_samples(models[model], layer_objs,
                                     with_all_features(ret'.training_samples),
                                     ret'.epochs)} :
                models'[model] = r.model]_vars

\* train has trained on a list that holds a sample with 19 features and one
\* with fewer, the model holding a buffered sample
C26_Witness ==
    /\ ret.op = "train"
    /\ ret.epochs >= 1
    /\ "model_updated" \in DOMAIN ret.val
    /\ \E i, j \in 1 .. Len(ret.training_samples) :
          /\ Len(ret.training_samples[i].features) = NumFeatures
          /\ Len(ret.training_samples[j].features) # NumFeatures
    /\ models[model].training_samples # <<>>

\* C30: train reports the number of samples it was given: samples_processed
\* is the length of the list and every epoch's loss is averaged over that
\* length, skipped samples included; when every sample is skipped the result
\* still has model_updated = true and is_trained is set while the classifier
\* and its bias stay as they were
C30_TrainCountsSuppliedSamples ==
    [][(ret'.op = "train" /\ "samples_processed" \in DOMAIN ret'.val)
       => /\ ret'.val.samples_processed = Len(ret'.training_samples)
          /\ Len(ret'.val.average_loss.sum) = ret'.epochs
          /\ \A e \in 1 .. Len(ret'.val.average_loss.sum) :
                /\ ret'.val.average_loss.sum[e].over = Len(ret'.training_samples)
                /\ Len(ret'.val.average_loss.sum[e].sum)
                      = Len(with_all_features(ret'.training_samples))
          /\ with_all_features(ret'.training_samples) = <<>>
                => /\ ret'.val.model_updated
                   /\ models'[model].is_trained
                   /\ models'[model].classifier = models[model].classifier
                   /\ models'[model].classifier_bias = models[model].classifier_bias]_vars

\* train has returned a result for a list of which it skipped every sample,
\* on a model that had not been trained
C30_Witness ==
    /\ ret.op = "train"
    /\ ret.training_samples # <<>>
    /\ with_all_features(ret.training_samples) = <<>>
    /\ "model_updated" \in DOMAIN ret.val
    /\ ret.val.model_updated
    /\ models[model].is_trained
    /\ \A c \in Classes : models[model].classifier_bias[c] = 0

----------------------------------------------------------------------------
(* Performance records *)

\* the counters of a version before anything was recorded for it
counters_of(version) ==
    IF version \in DOMAIN version_performance
    THEN version_performance[version]
    ELSE [total_predictions |-> 0, correct_predictions |-> 0]

\* C25: every performance record has 0 <= correct <= total and an accuracy
\* of correct / total when total > 0 and of 0 when total = 0; and
\* record_prediction_result(v, c) adds one to v's total, one to v's correct
\* count exactly when c is true, and changes no other version's record
C25_PerformanceRecords ==
    /\ [](\A v \in DOMAIN version_performance :
            LET perf == version_performance[v]
            IN  /\ 0 <= perf.correct_predictions
                /\ perf.correct_predictions <= perf.total_predictions
                /\ perf.accuracy[2] > 0
                /\ IF perf.total_predictions > 0
                   THEN perf.accuracy[1] * perf.total_predictions
                          = perf.correct_predictions * perf.accuracy[2]
                   ELSE perf.accuracy[1] = 0)
    /\ [][\A v \in Names, c \in BOOLEAN :
            (ret'.op = "record_prediction_result" /\ record_prediction_result(v, c)) =>
               /\ DOMAIN version_performance' = DOMAIN version_performance \cup {v}
               /\ version_performance'[v].total_predictions
                     = counters_of(v).total_predictions + 1
               /\ version_performance'[v].correct_predictions
                     = counters_of(v).correct_predictions + (IF c THEN 1 ELSE 0)
               /\ \A w \in DOMAIN version_performance \ {v} :
                     version_performance'[w] = version_performance[w]]_vars

\* two versions have records, one with correct and incorrect predictions
C25_Witness ==
    /\ ret.op = "record_prediction_result"
    /\ \E v, w \in DOMAIN version_performance :
          /\ v # w
          /\ version_performance[v].total_predictions >= 3
          /\ version_performance[v].correct_predictions = 1
          /\ version_performance[w].total_predictions = 1

----------------------------------------------------------------------------
(* Request validation *)

\* C22: a secret_value passes validation only if it is a non-empty string of
\* at most 10000 characters, an empty or longer one is rejected, and the
\* value an accepted request carries after sanitising is never empty
C22_AcceptedSecretNeverEmpty ==
    ret.op = "validate_secret_value" =>
        IF ret.v = <<>> \/ text_len(ret.v) > MaxSecretChars
        THEN "raised" \in DOMAIN ret.val
        ELSE /\ "value" \in DOMAIN ret.val
             /\ ret.val.value # <<>>

----------------------------------------------------------------------------
(* Switching versions and the analysis cache *)

\* C24: switch_model_version with a name that is neither "default" nor
\* stored returns false and leaves active_version, the active model and
\* both cache counters as they were; with a valid name it returns true, sets
\* active_version to the name and resets both cache counters to 0
C24_SwitchModelVersion ==
    [][ret'.op = "switch_model_version" =>
         IF ret'.version_name \notin DOMAIN model_versions /\ ret'.version_name # "default"
         THEN /\ ret'.val = FALSE
              /\ UNCHANGED <<active_version, model, cache_hits, cache_misses>>
         ELSE /\ ret'.val = TRUE
              /\ active_version' = ret'.version_name
              /\ cache_hits' = 0
              /\ cache_misses' = 0]_vars

\* the analyzer has switched to a stored version after lookups that filled
\* the cache
C24_Witness ==
    /\ ret.op = "switch_model_version"
    /\ ret.val = TRUE
    /\ ret.version_name = "v1"
    /\ active_version = "v1"
    /\ DOMAIN redis_cache.data # {}
    /\ cache_hits = 0
    /\ cache_misses = 0

\* C27: after a successful switch_model_version or /reset no cached result
\* of the model active before is served: the next
\* calculate_enhanced_confidence call, whatever its input, is a cache miss
\* computed by the model now active
C27_NoCachedResultAfterSwitch ==
    [][(/\ ret'.op = "calculate_enhanced_confidence"
        /\ \/ ret.op = "switch_model_version" /\ ret.val = TRUE
           \/ ret.op = "reset" /\ ret.val.status = "reset")
       => /\ ret'.cache = "miss"
          /\ ret'.val = computed_confidence(models[model], layer_objs, ret'.secret_value,
                                            ret'.context, "low", ret'.variable_name)]_vars

----------------------------------------------------------------------------
(* POST /train *)

\* C28: every /train request with a valid label and user action appends one
\* sample with the 19 features the server computes to the buffer of the
\* active model; it answers "sample_added" when the buffer then holds fewer
\* than 5 samples and otherwise trains one epoch on the latest min(n, 10)
\* samples and answers "trained"
C28_TrainRequest ==
    [][ret'.op = "train_model" =>
         \A f \in {extract_features(ret'.secret_value, ret'.context, ret'.variable_name)} :
         \A buffer \in {Append(models[model].training_samples,
                                Sample(char_codes(ret'.secret_value),
                                       feature_array(f.features), ret'.label))} :
            /\ Len(f.features) = NumFeatures
            /\ models'[model].training_samples = buffer
            /\ IF Len(buffer) < MinTrainSamples
               THEN /\ ret'.val.status = "sample_added"
                    /\ models'[model] = [models[model] EXCEPT !.training_samples = buffer]
               ELSE /\ ret'.val.status = "trained"
                    /\ ret'.val.samples_processed = Min(Len(buffer), TrainWindow)
                    /\ models'[model].is_trained]_vars

----------------------------------------------------------------------------
(* Authentication *)

\* the request presents a key or token the service accepts
presents_valid_bearer ==
    /\ ~request.credentials.is_none
    /\ \/ request.credentials.value.credentials \in api_keys
       \/ ~verify_jwt_token(request.credentials.value.credentials).is_none

\* C21: a request to /analyze or /train with no Authorization header and a
\* configured API key in its X-API-KEY header is authenticated and reaches
\* the handler; a request with no key or with an unknown key is rejected
\* with 401, and no handler runs for a request that was not authenticated
C21_XApiKeyAuthenticates ==
    /\ (ret.op = "get_api_key" /\ request.credentials.is_none) =>
          IF ~request.x_api_key.is_none /\ request.x_api_key.value \in api_keys
          THEN "value" \in DOMAIN ret.val
          ELSE "raised" \in DOMAIN ret.val /\ ret.val.status_code = 401
    /\ (ret.op = "get_api_key" /\ ~request.credentials.is_none
                               /\ ~presents_valid_bearer) =>
          ("raised" \in DOMAIN ret.val /\ ret.val.status_code = 401)
    /\ ret.op \in {"analyze_secret", "train_model"} =>
          \/ presents_valid_bearer
          \/ /\ request.credentials.is_none
             /\ ~request.x_api_key.is_none
             /\ request.x_api_key.value \in api_keys

====
